---- MODULE Spec2Model ----
(***************************************************************************)
(* Token budgeting, diff compression and provider selection of the         *)
(* git-graph-ai service: ai_service/token_manager.py (TokenManager) and    *)
(* ai_service/model_providers.py (OpenAIProvider, DeepseekProvider,        *)
(* ModelManager).                                                          *)
(*                                                                         *)
(* Representation of Python strings.  A text is the sequence of its lines  *)
(* (what text.split('\n') returns, so a text always has at least one       *)
(* line and '' is the single empty line).  A line is a record              *)
(* [h |-> head, n |-> k] standing for the characters of head followed by   *)
(* k copies of the filler character 'x'.  Heads are sequences of           *)
(* one-character strings and never contain 'x', so every string has one    *)
(* representation and equality of texts is equality of strings.  None of   *)
(* the substrings the code looks for contains 'x' or a newline, so every   *)
(* search is decided by the heads.  A character outside printable ASCII,   *)
(* and the backquote, is written as the string of its code point: "u5185"  *)
(* is U+5185 and "u0060" the backquote.                                    *)
(***************************************************************************)
EXTENDS Integers, Sequences, FiniteSets, TLC

(***************************************************************************)
(* Strings                                                                 *)
(***************************************************************************)
Ln(h, k) == [h |-> h, n |-> k]

EmptyLine == Ln(<<>>, 0)

EmptyText == <<EmptyLine>>

LineLen(l) == Len(l.h) + l.n

RECURSIVE SumLineLen(_)
SumLineLen(t) == IF t = <<>> THEN 0 ELSE LineLen(Head(t)) + SumLineLen(Tail(t))

\* len('\n'.join(lines))
JoinLen(lines) == IF lines = <<>> THEN 0 ELSE SumLineLen(lines) + Len(lines) - 1

\* len(text)
TextLen(t) == JoinLen(t)

\* '\n'.join(lines): the join of no line at all is '', the one empty line
Join(lines) == IF lines = <<>> THEN EmptyText ELSE lines

\* text.split('\n')
Split(t) == t

\* pat in s, for a head s
Contains(s, pat) ==
    \E i \in 1..(Len(s) - Len(pat) + 1) : SubSeq(s, i, i + Len(pat) - 1) = pat

\* pat in text
TextContains(t, pat) == \E i \in 1..Len(t) : Contains(t[i].h, pat)

\* line.startswith(pat)
StartsWith(l, pat) == Len(l.h) >= Len(pat) /\ SubSeq(l.h, 1, Len(pat)) = pat

\* line[:k], 0 <= k
LinePrefix(l, k) ==
    IF k >= LineLen(l) THEN l
    ELSE IF k <= Len(l.h) THEN Ln(SubSeq(l.h, 1, k), 0)
    ELSE Ln(l.h, k - Len(l.h))

\* line[-k:], 0 < k
LineSuffix(l, k) ==
    IF k >= LineLen(l) THEN l
    ELSE IF k <= l.n THEN Ln(<<>>, k)
    ELSE Ln(SubSeq(l.h, Len(l.h) - (k - l.n) + 1, Len(l.h)), l.n)

RECURSIVE TakeChars(_, _)
\* the first k characters of a text, 0 <= k
TakeChars(t, k) ==
    IF k >= TextLen(t) THEN t
    ELSE IF k <= LineLen(Head(t)) THEN <<LinePrefix(Head(t), k)>>
    ELSE <<Head(t)>> \o TakeChars(Tail(t), k - LineLen(Head(t)) - 1)

RECURSIVE LastChars(_, _)
\* the last k characters of a text, 0 < k
LastChars(t, k) ==
    IF k >= TextLen(t) THEN t
    ELSE LET last == t[Len(t)]
         IN  IF k <= LineLen(last) THEN <<LineSuffix(last, k)>>
             ELSE LastChars(SubSeq(t, 1, Len(t) - 1), k - LineLen(last) - 1) \o <<last>>

\* text[:k] with Python's slice rules: a negative k counts from the end
SliceTo(t, k) ==
    IF k >= 0 THEN TakeChars(t, k)
    ELSE IF TextLen(t) + k <= 0 THEN EmptyText
    ELSE TakeChars(t, TextLen(t) + k)

\* text[-k:] for k >= 0: text[-0:] is the whole text
SliceLast(t, k) == IF k = 0 THEN t ELSE LastChars(t, k)

\* a + b: the last line of a and the first line of b become one line.  The
\* code only concatenates where one of the two is empty or the first has no
\* filler, so the result is again head-then-filler.
Concat(a, b) ==
    LET la == a[Len(a)]
        fb == Head(b)
        joined == IF LineLen(fb) = 0 THEN la
                  ELSE IF la.n = 0 THEN Ln(la.h \o fb.h, fb.n)
                  ELSE Ln(la.h \o [i \in 1..la.n |-> "x"] \o fb.h, fb.n)
    IN  SubSeq(a, 1, Len(a) - 1) \o <<joined>> \o Tail(b)

Digit(d) == <<"0", "1", "2", "3", "4", "5", "6", "7", "8", "9">>[d + 1]

RECURSIVE Str(_)
\* str(k) for k >= 0, as the f-strings print it
Str(k) == IF k < 10 THEN <<Digit(k)>> ELSE Str(k \div 10) \o <<Digit(k % 10)>>

RECURSIVE MulDivRem(_, _, _)
\* <<q, r>> with a * b = q * c + r and 0 <= r < c, computed without leaving
\* the 32-bit range
MulDivRem(a, b, c) ==
    IF b = 0 THEN <<0, 0>>
    ELSE LET half == MulDivRem(a, b \div 2, c)
             q2 == 2 * half[1] + (2 * half[2]) \div c
             r2 == (2 * half[2]) % c
         IN  IF b % 2 = 0 THEN <<q2, r2>>
             ELSE <<q2 + (r2 + a) \div c, (r2 + a) % c>>

(***************************************************************************)
(* TokenManager                                                            *)
(***************************************************************************)
KnownModels ==
    {"deepseek-v3", "deepseek-r1", "gpt-4", "gpt-4-32k", "gpt-4.1", "gpt-4.1-mini"}

LargeContext == 1047576

MidContext == 32768

SmallContext == 8192

\* MODEL_LIMITS.get(model_name, 32768)
MODEL_LIMITS(model_name) ==
    CASE model_name \in {"deepseek-v3", "deepseek-r1", "gpt-4-32k"} -> MidContext
      [] model_name = "gpt-4" -> SmallContext
      [] model_name \in {"gpt-4.1", "gpt-4.1-mini"} -> LargeContext
      [] OTHER -> MidContext

RESPONSE_TOKENS == 800

LargeResponseTokens == 2000

LargeContextThreshold == 100000

\* TokenManager.__init__: self.available_tokens
AvailableTokens(model_name) ==
    IF MODEL_LIMITS(model_name) > LargeContextThreshold
    THEN MODEL_LIMITS(model_name) - LargeResponseTokens
    ELSE MODEL_LIMITS(model_name) - RESPONSE_TOKENS

code_indicators ==
    << <<"u0060", "u0060", "u0060">>,
       <<"f", "u", "n", "c", "t", "i", "o", "n">>,
       <<"c", "l", "a", "s", "s", " ">>,
       <<"d", "e", "f", " ">>,
       <<"i", "m", "p", "o", "r", "t", " ">>,
       <<"r", "e", "q", "u", "i", "r", "e">>,
       <<"{", "}">>, <<"[", "]">>, <<"(", ")">>,
       <<"=", ">">>, <<"-", ">">>, <<":", ":">>,
       <<"+", "+", "+">>, <<"-", "-", "-">>, <<"@", "@">>,
       <<"d", "i", "f", "f">> >>

\* _is_code_content satisfied by a single indicator
IsCodeContentAny(t) ==
    Cardinality({k \in 1..Len(code_indicators) : TextContains(t, code_indicators[k])}) >= 1

\* _is_code_content
IsCodeContent(t) ==
    Cardinality({k \in 1..Len(code_indicators) : TextContains(t, code_indicators[k])}) >= 2

\* estimate_tokens: int(char_count / 3) for code, int(char_count / 4) otherwise
EstimateTokens(t) ==
    IF TextLen(t) = 0 THEN 0
    ELSE IF IsCodeContent(t) THEN TextLen(t) \div 3
    ELSE TextLen(t) \div 4

BasePromptTokens == 300

ChangeTypeTokens == 10

\* _estimate_file_tokens
EstimateFileTokens(f) ==
    EstimateTokens(f.filePath) + ChangeTypeTokens + EstimateTokens(f.diffContent)

RECURSIVE SumFileTokens(_)
SumFileTokens(fs) ==
    IF fs = <<>> THEN 0 ELSE EstimateFileTokens(Head(fs)) + SumFileTokens(Tail(fs))

\* the marker of _regular_compress_diff: '\n...[' U+5185 U+5BB9 U+5DF2 U+622A U+65AD ']'
TruncatedMarker ==
    <<EmptyLine, Ln(<<".", ".", ".", "[", "u5185", "u5BB9", "u5DF2", "u622A", "u65AD", "]">>, 0)>>

\* the marker of _aggressive_compress_diff: '\n...[' U+5DF2 U+6781 U+5EA6 U+538B U+7F29 ']'
ExtremeMarker ==
    <<EmptyLine, Ln(<<".", ".", ".", "[", "u5DF2", "u6781", "u5EA6", "u538B", "u7F29", "]">>, 0)>>

\* the priority_patterns of _regular_compress_diff, tried with re.match:
\* ^@@.*@@   ^\+\+\+   ^---   ^\+.*   ^-.*
IsImportantLine(l) ==
    \/ StartsWith(l, <<"+">>)
    \/ StartsWith(l, <<"-">>)
    \/ /\ StartsWith(l, <<"@", "@">>)
       /\ Contains(SubSeq(l.h, 3, Len(l.h)), <<"@", "@">>)

IsContextLine(l) == ~IsImportantLine(l)

\* int(total_chars * compression_ratio) with compression_ratio the double
\* target_tokens / current_tokens.  The two roundings move the product by far
\* less than 1 / current_tokens, so the result is the exact quotient truncated
\* toward zero, except where the exact quotient is a whole number q that the
\* double misses from below: then int() gives q - 1.  dn \in {0, 1} chooses
\* between the two; a ratio that is itself a whole number is exact.
TargetChars(total_chars, target_tokens, current_tokens, dn) ==
    LET mag == IF target_tokens < 0 THEN -target_tokens ELSE target_tokens
        qr == MulDivRem(total_chars, mag, current_tokens)
        q == IF qr[2] = 0 /\ qr[1] > 0 /\ mag % current_tokens # 0 THEN qr[1] - dn
             ELSE qr[1]
    IN  IF target_tokens < 0 THEN -q ELSE q

RECURSIVE AddContext(_, _, _)
\* the loop over context_lines: the lines appended to result_lines
AddContext(context_lines, current_chars, target_chars) ==
    IF context_lines = <<>> THEN <<>>
    ELSE IF current_chars + LineLen(Head(context_lines)) + 1 <= target_chars
    THEN <<Head(context_lines)>>
         \o AddContext(Tail(context_lines),
                       current_chars + LineLen(Head(context_lines)) + 1, target_chars)
    ELSE <<>>

\* _regular_compress_diff without the cut of lines 245-246
RegularCompressDiffUncut(diff_content, target_tokens, current_tokens, dn) ==
    LET lines == Split(diff_content)
        important_lines == SelectSeq(lines, IsImportantLine)
        context_lines == SelectSeq(lines, IsContextLine)
        target_chars == TargetChars(JoinLen(lines), target_tokens, current_tokens, dn)
    IN  Join(important_lines
             \o AddContext(context_lines, JoinLen(important_lines), target_chars))

\* _regular_compress_diff(diff_content, target_tokens / current_tokens)
RegularCompressDiff(diff_content, target_tokens, current_tokens, dn) ==
    LET lines == Split(diff_content)
        important_lines == SelectSeq(lines, IsImportantLine)
        context_lines == SelectSeq(lines, IsContextLine)
        total_chars == JoinLen(lines)
        target_chars == TargetChars(total_chars, target_tokens, current_tokens, dn)
        result_lines == important_lines
                        \o AddContext(context_lines, JoinLen(important_lines), target_chars)
        result == Join(result_lines)
    IN  IF TextLen(result) > target_chars
        THEN Concat(SliceTo(result, target_chars), TruncatedMarker)
        ELSE result

IsAddedLine(l) == StartsWith(l, <<"+">>) /\ ~StartsWith(l, <<"+", "+", "+">>)

IsRemovedLine(l) == StartsWith(l, <<"-">>) /\ ~StartsWith(l, <<"-", "-", "-">>)

IsHunkHeader(l) == StartsWith(l, <<"@", "@">>)

KeptChangeLines == 3

FirstLines(s, k) == SubSeq(s, 1, IF Len(s) < k THEN Len(s) ELSE k)

\* the f-string '[' U+65B0 U+589E ' ' {len(added_lines)} ' ' U+884C ']'
AddedCountLine(k) == Ln(<<"[", "u65B0", "u589E", " ">> \o Str(k) \o <<" ", "u884C", "]">>, 0)

\* the f-string '...[' U+8FD8 U+6709 ' ' {len(added_lines) - 3} ' ' U+884C U+65B0 U+589E ']'
AddedMoreLine(k) ==
    Ln(<<".", ".", ".", "[", "u8FD8", "u6709", " ">> \o Str(k)
       \o <<" ", "u884C", "u65B0", "u589E", "]">>, 0)

\* the f-string '[' U+5220 U+9664 ' ' {len(removed_lines)} ' ' U+884C ']'
RemovedCountLine(k) == Ln(<<"[", "u5220", "u9664", " ">> \o Str(k) \o <<" ", "u884C", "]">>, 0)

\* the f-string '...[' U+8FD8 U+6709 ' ' {len(removed_lines) - 3} ' ' U+884C U+5220 U+9664 ']'
RemovedMoreLine(k) ==
    Ln(<<".", ".", ".", "[", "u8FD8", "u6709", " ">> \o Str(k)
       \o <<" ", "u884C", "u5220", "u9664", "]">>, 0)

\* summary_parts with the file headers '+++' and '---' taken for added and
\* removed lines
AggressiveSummaryPartsWithFileHeaders(diff_content) ==
    LET lines == Split(diff_content)
        IsPlus(l) == StartsWith(l, <<"+">>)
        IsMinus(l) == StartsWith(l, <<"-">>)
        added_lines == SelectSeq(lines, IsPlus)
        removed_lines == SelectSeq(lines, IsMinus)
        headers == SelectSeq(lines, IsHunkHeader)
    IN  (IF headers # <<>> THEN <<headers[1]>> ELSE <<>>)
        \o (IF added_lines # <<>>
            THEN <<AddedCountLine(Len(added_lines))>>
                 \o FirstLines(added_lines, KeptChangeLines)
                 \o (IF Len(added_lines) > KeptChangeLines
                     THEN <<AddedMoreLine(Len(added_lines) - KeptChangeLines)>>
                     ELSE <<>>)
            ELSE <<>>)
        \o (IF removed_lines # <<>>
            THEN <<RemovedCountLine(Len(removed_lines))>>
                 \o FirstLines(removed_lines, KeptChangeLines)
                 \o (IF Len(removed_lines) > KeptChangeLines
                     THEN <<RemovedMoreLine(Len(removed_lines) - KeptChangeLines)>>
                     ELSE <<>>)
            ELSE <<>>)

\* summary_parts of _aggressive_compress_diff
AggressiveSummaryParts(diff_content) ==
    LET lines == Split(diff_content)
        added_lines == SelectSeq(lines, IsAddedLine)
        removed_lines == SelectSeq(lines, IsRemovedLine)
        headers == SelectSeq(lines, IsHunkHeader)
    IN  (IF headers # <<>> THEN <<headers[1]>> ELSE <<>>)
        \o (IF added_lines # <<>>
            THEN <<AddedCountLine(Len(added_lines))>>
                 \o FirstLines(added_lines, KeptChangeLines)
                 \o (IF Len(added_lines) > KeptChangeLines
                     THEN <<AddedMoreLine(Len(added_lines) - KeptChangeLines)>>
                     ELSE <<>>)
            ELSE <<>>)
        \o (IF removed_lines # <<>>
            THEN <<RemovedCountLine(Len(removed_lines))>>
                 \o FirstLines(removed_lines, KeptChangeLines)
                 \o (IF Len(removed_lines) > KeptChangeLines
                     THEN <<RemovedMoreLine(Len(removed_lines) - KeptChangeLines)>>
                     ELSE <<>>)
            ELSE <<>>)

CharsPerToken == 4

\* _aggressive_compress_diff
AggressiveCompressDiff(diff_content, target_tokens) ==
    LET result == Join(AggressiveSummaryParts(diff_content))
        target_chars == target_tokens * CharsPerToken
    IN  IF TextLen(result) > target_chars
        THEN Concat(SliceTo(result, target_chars), ExtremeMarker)
        ELSE result

\* _compress_diff_content returning early only below the target
CompressDiffContentStrict(diff_content, target_tokens, aggressive, dn) ==
    IF TextLen(diff_content) = 0 THEN diff_content
    ELSE IF EstimateTokens(diff_content) < target_tokens THEN diff_content
    ELSE IF aggressive THEN AggressiveCompressDiff(diff_content, target_tokens)
    ELSE RegularCompressDiff(diff_content, target_tokens,
                             EstimateTokens(diff_content), dn)

\* _compress_diff_content
CompressDiffContent(diff_content, target_tokens, aggressive, dn) ==
    IF TextLen(diff_content) = 0 THEN diff_content
    ELSE IF EstimateTokens(diff_content) <= target_tokens THEN diff_content
    ELSE IF aggressive THEN AggressiveCompressDiff(diff_content, target_tokens)
    ELSE RegularCompressDiff(diff_content, target_tokens,
                             EstimateTokens(diff_content), dn)

MinFileTokens == 50

PathReserveTokens == 30

\* _optimize_single_file: <<>> stands for None, <<f>> for the dict f
OptimizeSingleFile(file_data, available_tokens, dn) ==
    IF available_tokens < MinFileTokens THEN <<>>
    ELSE IF TextLen(file_data.diffContent) = 0 THEN <<file_data>>
    ELSE IF EstimateFileTokens(file_data) <= available_tokens THEN <<file_data>>
    ELSE <<[file_data EXCEPT !.diffContent =
               CompressDiffContent(file_data.diffContent,
                                   available_tokens - PathReserveTokens, FALSE, dn)]>>

MinCompressTokens == 30

AggressiveReserveTokens == 20

\* _compress_file_content: <<>> stands for None
CompressFileContent(file_data, max_tokens) ==
    IF max_tokens < MinCompressTokens THEN <<>>
    ELSE <<[file_data EXCEPT !.diffContent =
               CompressDiffContent(file_data.diffContent,
                                   max_tokens - AggressiveReserveTokens, TRUE, 0)]>>

MinAvailableForFiles == 100

MinRemainingTokens == 50

\* available_for_files of optimize_file_analysis_data
AvailableForFiles(model_name) == AvailableTokens(model_name) - BasePromptTokens

\* validate_prompt_size: the sum of estimate_tokens over the contents
RECURSIVE PromptTokens(_)
PromptTokens(messages) ==
    IF messages = <<>> THEN 0
    ELSE EstimateTokens(Head(messages).content) + PromptTokens(Tail(messages))

\* validate_prompt_size accepting only what is below available_tokens
ValidatePromptSizeStrict(model_name, messages) ==
    [is_valid |-> PromptTokens(messages) < AvailableTokens(model_name),
     estimated_tokens |-> PromptTokens(messages)]

\* validate_prompt_size: (is_valid, estimated_tokens); the recommendation is
\* the excess or the headroom, a function of the two
ValidatePromptSize(model_name, messages) ==
    [is_valid |-> PromptTokens(messages) <= AvailableTokens(model_name),
     estimated_tokens |-> PromptTokens(messages)]

(***************************************************************************)
(* OpenAIProvider and DeepseekProvider                                     *)
(***************************************************************************)
\* the keys _init_providers registers, in the order it inserts them
ProviderNames == <<"openai", "deepseek-v3", "deepseek-r1">>

ProviderIds == {ProviderNames[i] : i \in 1..Len(ProviderNames)}

\* the model name the provider registered under a key builds its TokenManager
\* with: OpenAIProvider() defaults to gpt-4.1-mini, DeepseekProvider(key) uses
\* the key
ProviderModel(id) == IF id = "openai" THEN "gpt-4.1-mini" ELSE id

\* provider.token_manager.available_tokens
ProviderAvailableTokens(id) == AvailableTokens(ProviderModel(id))

IsDeepseek(id) == id \in {"deepseek-v3", "deepseek-r1"}

GenericCharsPerToken == 3

GenericThird == 3

\* the f-string of _optimize_generic_content: '\n\n[', 5 CJK characters, a
\* full-width comma, 3 CJK characters, ' ' {omitted} ' ', 3 CJK characters,
\* ']\n\n'
GenericMarker(omitted) ==
    <<EmptyLine, EmptyLine,
      Ln(<<"[", "u5185", "u5BB9", "u5DF2", "u538B", "u7F29", "uFF0C", "u7701", "u7565", "u4E86", " ">>
         \o Str(omitted) \o <<" ", "u4E2A", "u5B57", "u7B26", "]">>, 0),
      EmptyLine, EmptyLine>>

\* _optimize_generic_content
OptimizeGenericContent(id, content) ==
    LET max_chars == ProviderAvailableTokens(id) * GenericCharsPerToken
        start_chars == max_chars \div GenericThird
        end_chars == max_chars \div GenericThird
    IN  IF TextLen(content) > max_chars
        THEN Concat(Concat(SliceTo(content, start_chars),
                           GenericMarker(TextLen(content) - start_chars - end_chars)),
                    SliceLast(content, end_chars))
        ELSE content

\* the title line of the file section: U+4E3B U+8981 U+6587 U+4EF6 U+53D8 U+66F4 U+FF1A
SectionTitle == <<"u4E3B", "u8981", "u6587", "u4EF6", "u53D8", "u66F4", "uFF1A">>

\* the keywords of the lines _optimize_comprehensive_analysis_content keeps
\* from the part before the file section
HeaderKeywords ==
    { <<"u63D0", "u4EA4", "u4FE1", "u606F", "uFF1A">>,
      <<"u63D0", "u4EA4", "u54C8", "u5E0C", ":">>,
      <<"u4F5C", "u8005", ":">>,
      <<"u63D0", "u4EA4", "u6D88", "u606F", ":">>,
      <<"u6BD4", "u8F83", "u6982", "u89C8", "uFF1A">>,
      <<"u672A", "u63D0", "u4EA4", "u53D8", "u66F4", "u4FE1", "u606F", "uFF1A">> }

\* '   ' U+53D8 U+66F4 U+7C7B U+578B ':'
ChangeTypePrefix == <<" ", " ", " ", "u53D8", "u66F4", "u7C7B", "u578B", ":">>

\* '   ' U+5DEE U+5F02 U+5185 U+5BB9 ':'
DiffContentPrefix == <<" ", " ", " ", "u5DEE", "u5F02", "u5185", "u5BB9", ":">>

\* '   ```'
IndentedFence == <<" ", " ", " ", "u0060", "u0060", "u0060">>

\* the first words of the closing request for a report
ReportRequestPrefix ==
    <<"u8BF7", "u63D0", "u4F9B", "u4E00", "u4E2A", "u7EFC", "u5408", "u6027", "u7684", "u5206", "u6790", "u62A5", "u544A">>

\* '   [diff' ... ']': the line appended when more than 10 diff lines existed
DiffCompressedLine ==
    Ln(<<" ", " ", " ", "[", "d", "i", "f", "f", "u5185", "u5BB9", "u5DF2", "u538B", "u7F29", "uFF0C", "u539F", "u6709", "u66F4", "u591A", "u884C", "]">>, 0)

\* the f-string '\n[' U+8FD8 U+6709 ' ' {omitted} ' ' ... 'token' U+4F7F U+7528 ']',
\* as the two lines it becomes in the join
OmittedFilesLines(omitted) ==
    <<EmptyLine,
      Ln(<<"[", "u8FD8", "u6709", " ">> \o Str(omitted)
         \o <<" ", "u4E2A", "u6587", "u4EF6", "u5DF2", "u7701", "u7565", "u4EE5", "u51CF", "u5C11", "t", "o", "k", "e", "n", "u4F7F", "u7528", "]">>, 0)>>

Digits == {"0", "1", "2", "3", "4", "5", "6", "7", "8", "9"}

Whitespace == {" ", "\t"}

\* line.strip() is not empty
NonBlank(l) == l.n > 0 \/ \E i \in 1..Len(l.h) : l.h[i] \notin Whitespace

\* line.strip() and line[0].isdigit()
StartsNewFile(l) == NonBlank(l) /\ Len(l.h) > 0 /\ l.h[1] \in Digits

MaxPromptFiles == 3

MaxDiffLines == 10

MaxContextDiffLines == 5

\* lines.index(line): the first position holding an equal line
IndexOf(lines, line) == CHOOSE i \in 1..Len(lines) :
    lines[i] = line /\ \A j \in 1..(i - 1) : lines[j] # line

RECURSIVE CompressDiffLinesFrom(_, _, _)
CompressDiffLinesFrom(diff_lines, i, important_lines) ==
    IF i > Len(diff_lines) THEN important_lines
    ELSE IF \/ Contains(diff_lines[i].h, <<"+">>) \/ Contains(diff_lines[i].h, <<"-">>)
            \/ Contains(diff_lines[i].h, <<"@", "@">>)
    THEN CompressDiffLinesFrom(diff_lines, i + 1, Append(important_lines, diff_lines[i]))
    ELSE IF Len(important_lines) < MaxContextDiffLines
    THEN CompressDiffLinesFrom(diff_lines, i + 1, Append(important_lines, diff_lines[i]))
    ELSE CompressDiffLinesFrom(diff_lines, i + 1, important_lines)

\* _compress_diff_lines: a line holding one of '+++', '---', '@@', '+', '-'
\* is kept, any other line while fewer than 5 lines have been kept
CompressDiffLines(diff_lines) == CompressDiffLinesFrom(diff_lines, 1, <<>>)

RECURSIVE CollectDiffLines(_, _)
\* the inner loop over lines[lines.index(line)+1:], from position i
CollectDiffLines(lines, i) ==
    IF i > Len(lines) THEN <<>>
    ELSE IF StartsNewFile(lines[i]) THEN <<>>
    ELSE IF StartsWith(lines[i], IndentedFence) THEN CollectDiffLines(lines, i + 1)
    ELSE IF NonBlank(lines[i]) THEN <<lines[i]>> \o CollectDiffLines(lines, i + 1)
    ELSE CollectDiffLines(lines, i + 1)

\* what follows a diff-content line in the output
DiffLinesAfter(lines, line) ==
    LET diff_lines == CollectDiffLines(lines, IndexOf(lines, line) + 1)
    IN  IF diff_lines = <<>> THEN <<>>
        ELSE CompressDiffLines(FirstLines(diff_lines, MaxDiffLines))
             \o (IF Len(diff_lines) > MaxDiffLines THEN <<DiffCompressedLine>> ELSE <<>>)

HasHeaderKeyword(l) == \E k \in HeaderKeywords : Contains(l.h, k)

RECURSIVE BasicInfoLines(_, _)
\* the first loop: the lines with a keyword, up to and with the title line
BasicInfoLines(lines, i) ==
    IF i > Len(lines) THEN <<>>
    ELSE IF HasHeaderKeyword(lines[i]) THEN <<lines[i]>> \o BasicInfoLines(lines, i + 1)
    ELSE IF StartsWith(lines[i], SectionTitle) THEN <<lines[i]>>
    ELSE BasicInfoLines(lines, i + 1)

RECURSIVE FileSectionLines(_, _, _, _)
\* the second loop, from position i
FileSectionLines(lines, i, in_file_section, file_count) ==
    IF i > Len(lines) THEN <<>>
    ELSE IF StartsWith(lines[i], SectionTitle)
    THEN FileSectionLines(lines, i + 1, TRUE, file_count)
    ELSE IF ~in_file_section
    THEN FileSectionLines(lines, i + 1, FALSE, file_count)
    ELSE IF StartsNewFile(lines[i])
    THEN IF file_count + 1 > MaxPromptFiles
         THEN OmittedFilesLines(Len(SelectSeq(lines, StartsNewFile)) - MaxPromptFiles)
         ELSE <<lines[i]>> \o FileSectionLines(lines, i + 1, TRUE, file_count + 1)
    ELSE IF StartsWith(lines[i], ChangeTypePrefix)
    THEN <<lines[i]>> \o FileSectionLines(lines, i + 1, TRUE, file_count)
    ELSE IF StartsWith(lines[i], DiffContentPrefix)
    THEN <<lines[i]>> \o DiffLinesAfter(lines, lines[i])
         \o FileSectionLines(lines, i + 1, TRUE, file_count)
    ELSE FileSectionLines(lines, i + 1, TRUE, file_count)

RECURSIVE ReportRequestLines(_, _)
\* the third loop: everything from the first line that opens the request
ReportRequestLines(lines, i) ==
    IF i > Len(lines) THEN <<>>
    ELSE IF StartsWith(lines[i], ReportRequestPrefix)
    THEN SubSeq(lines, IndexOf(lines, lines[i]), Len(lines))
    ELSE ReportRequestLines(lines, i + 1)

\* _optimize_comprehensive_analysis_content
OptimizeComprehensiveAnalysisContent(content) ==
    LET lines == Split(content)
    IN  Join(BasicInfoLines(lines, 1) \o FileSectionLines(lines, 1, FALSE, 0)
             \o ReportRequestLines(lines, 1))

\* _optimize_user_content
OptimizeUserContent(id, content) ==
    IF TextLen(content) = 0 THEN content
    ELSE IF TextContains(content, SectionTitle)
    THEN OptimizeComprehensiveAnalysisContent(content)
    ELSE OptimizeGenericContent(id, content)

\* _optimize_messages: user messages are rebuilt with optimized content, all
\* other messages are passed on as they are
OptimizeMessages(id, messages) ==
    [i \in 1..Len(messages) |->
        IF messages[i].role = "user"
        THEN [role |-> "user", content |-> OptimizeUserContent(id, messages[i].content)]
        ELSE messages[i]]

\* The dict that receives the optimized content of message i of the caller's
\* list: the dict literal of lines 227-230 is a new object, written 0; a
\* positive number is the i-th dict of the caller.
OptimizedMessageDict(i) == 0

\* The caller's list after provider.chat_completion got as far as the
\* request: _optimize_messages runs only in DeepseekProvider and only after a
\* failed validation, appends to a list of its own, and stores optimized
\* content in OptimizedMessageDict.
CallerMessagesAfter(id, messages) ==
    IF IsDeepseek(id) /\ ~ValidatePromptSize(ProviderModel(id), messages).is_valid
    THEN [i \in 1..Len(messages) |->
            IF messages[i].role = "user" /\ OptimizedMessageDict(i) = i
            THEN OptimizeMessages(id, messages)[i]
            ELSE messages[i]]
    ELSE messages

\* PrepareRequest with the second validation of DeepseekProvider left out: the
\* optimized messages go out whatever their size
PrepareRequestUnchecked(id, messages) ==
    LET first == ValidatePromptSize(ProviderModel(id), messages)
        optimized_messages == OptimizeMessages(id, messages)
        second == ValidatePromptSize(ProviderModel(id), optimized_messages)
    IN  IF first.is_valid
        THEN [send |-> TRUE, messages |-> messages, validations |-> 1,
              optimizations |-> 0, error |-> "none",
              original |-> first.estimated_tokens, optimized |-> -1]
        ELSE IF ~IsDeepseek(id)
        THEN [send |-> FALSE, messages |-> <<>>, validations |-> 1,
              optimizations |-> 0, error |-> "token_limit_exceeded",
              original |-> first.estimated_tokens, optimized |-> -1]
        ELSE [send |-> TRUE, messages |-> optimized_messages, validations |-> 1,
              optimizations |-> 1, error |-> "none",
              original |-> first.estimated_tokens,
              optimized |-> second.estimated_tokens]

\* PrepareRequest with the second validation of DeepseekProvider applied to
\* the messages as they came in instead of the optimized ones
PrepareRequestStale(id, messages) ==
    LET first == ValidatePromptSize(ProviderModel(id), messages)
        optimized_messages == OptimizeMessages(id, messages)
        second == ValidatePromptSize(ProviderModel(id), messages)
    IN  IF first.is_valid
        THEN [send |-> TRUE, messages |-> messages, validations |-> 1,
              optimizations |-> 0, error |-> "none",
              original |-> first.estimated_tokens, optimized |-> -1]
        ELSE IF ~IsDeepseek(id)
        THEN [send |-> FALSE, messages |-> <<>>, validations |-> 1,
              optimizations |-> 0, error |-> "token_limit_exceeded",
              original |-> first.estimated_tokens, optimized |-> -1]
        ELSE IF second.is_valid
        THEN [send |-> TRUE, messages |-> optimized_messages, validations |-> 2,
              optimizations |-> 1, error |-> "none",
              original |-> first.estimated_tokens,
              optimized |-> second.estimated_tokens]
        ELSE [send |-> FALSE, messages |-> <<>>, validations |-> 2,
              optimizations |-> 1, error |-> "token_limit_exceeded_after_optimization",
              original |-> first.estimated_tokens,
              optimized |-> second.estimated_tokens]

\* What provider.chat_completion does before any network traffic: the list it
\* will transmit, or the exception it raises, with the number of calls of
\* validate_prompt_size and _optimize_messages it made.
\*   OpenAIProvider (lines 47-55): one validation, Exception on failure.
\*   DeepseekProvider (lines 118-140): validation, and on failure
\*   _optimize_messages and one more validation.
PrepareRequest(id, messages) ==
    LET first == ValidatePromptSize(ProviderModel(id), messages)
        optimized_messages == OptimizeMessages(id, messages)
        second == ValidatePromptSize(ProviderModel(id), optimized_messages)
    IN  IF first.is_valid
        THEN [send |-> TRUE, messages |-> messages, validations |-> 1,
              optimizations |-> 0, error |-> "none",
              original |-> first.estimated_tokens, optimized |-> -1]
        ELSE IF ~IsDeepseek(id)
        THEN [send |-> FALSE, messages |-> <<>>, validations |-> 1,
              optimizations |-> 0, error |-> "token_limit_exceeded",
              original |-> first.estimated_tokens, optimized |-> -1]
        ELSE IF second.is_valid
        THEN [send |-> TRUE, messages |-> optimized_messages, validations |-> 2,
              optimizations |-> 1, error |-> "none",
              original |-> first.estimated_tokens,
              optimized |-> second.estimated_tokens]
        ELSE [send |-> FALSE, messages |-> <<>>, validations |-> 2,
              optimizations |-> 1, error |-> "token_limit_exceeded_after_optimization",
              original |-> first.estimated_tokens,
              optimized |-> second.estimated_tokens]

\* test_messages of DeepseekProvider.is_available
HelloMessages == <<[role |-> "user", content |-> <<Ln(<<"H", "e", "l", "l", "o">>, 0)>>]>>

(***************************************************************************)
(* The backend call of a provider and what the provider makes of its end   *)
(***************************************************************************)
\* Retry(total=3, ...) of DeepseekProvider.__init__
RetryTotal == 3

status_forcelist == {500, 502, 503, 504}

\* Retry is given no allowed_methods: urllib3 retries a response status for
\* the idempotent methods only
RetryAllowedMethods == {"HEAD", "GET", "PUT", "DELETE", "OPTIONS", "TRACE"}

\* self.session.post(...)
RequestMethod == "POST"

\* What can come back for a request of DeepseekProvider: a response with an
\* HTTP status and a kind of body, or (status 0) the failure of the transport.
\* Bodies of a 200: a choice with content (or reasoning_content), a choice
\* with none of the known fields (or a message whose fields are empty), a
\* choice without message whose text is '' and one whose text is null, JSON
\* without choices, no JSON at all.
DeepseekResponses ==
    {[status |-> 200, body |-> b] :
        b \in {"content", "unknown_choice", "empty_text", "null_text", "no_choices",
               "not_json"}}
    \cup {[status |-> 400, body |-> b] : b \in {"maximum_context_length", "other_json", "not_json"}}
    \cup {[status |-> st, body |-> "other_json"] : st \in {401, 503}}
    \cup {[status |-> 0, body |-> b] : b \in {"connection_error", "read_timeout"}}

\* What can come back for a request of OpenAIProvider: a completion, or an
\* OpenAIError of the client
OpenAIResponses == {[status |-> 200, body |-> "content"], [status |-> 0, body |-> "openai_error"]}

Responses(id) == IF IsDeepseek(id) THEN DeepseekResponses ELSE OpenAIResponses

\* whether the session sends the request again instead of handing the
\* response (or the failure) to chat_completion
RetryApplies(resp) ==
    \/ resp.status = 0 /\ resp.body = "connection_error"
    \/ resp.status \in status_forcelist /\ RequestMethod \in RetryAllowedMethods

\* the body of the try of DeepseekProvider.chat_completion (lines 157-204):
\* what it returns, or the class of the exception it raises and what the
\* exception says
DeepseekTry(resp) ==
    IF resp.status = 0
    THEN [raises |-> "RequestException", value |-> resp.body]
    ELSE IF resp.status = 200
    THEN CASE resp.body = "not_json" -> [raises |-> "JSONDecodeError", value |-> "not_json"]
           [] resp.body = "no_choices" -> [raises |-> "Exception", value |-> "invalid_response"]
           [] resp.body = "unknown_choice" -> [raises |-> "none", value |-> "placeholder"]
           [] resp.body = "empty_text" -> [raises |-> "none", value |-> "empty"]
           [] resp.body = "null_text" ->
                [raises |-> "AttributeError", value |-> "attribute_error"]
           [] OTHER -> [raises |-> "none", value |-> "content"]
    ELSE IF resp.status = 400 /\ resp.body = "maximum_context_length"
    THEN [raises |-> "Exception", value |-> "backend_token_limit"]
    ELSE [raises |-> "Exception", value |-> "api_error"]

\* DeepseekExcept with one clause, except Exception, in place of the two
DeepseekExceptCatchAll(outcome, json_error_is_transport) ==
    IF outcome.raises = "none" THEN [kind |-> "text", value |-> outcome.value]
    ELSE [kind |-> "error", value |-> "network_error"]

\* the except clauses of lines 206-209, in their order.  The JSONDecodeError
\* of response.json() is a RequestException too in the newer releases of
\* requests: json_error_is_transport says which release is installed.
DeepseekExcept(outcome, json_error_is_transport) ==
    IF outcome.raises = "none" THEN [kind |-> "text", value |-> outcome.value]
    ELSE IF \/ outcome.raises = "RequestException"
            \/ outcome.raises = "JSONDecodeError" /\ json_error_is_transport
    THEN [kind |-> "error", value |-> "network_error"]
    ELSE IF outcome.raises = "JSONDecodeError"
    THEN [kind |-> "error", value |-> "parse_error"]
    ELSE [kind |-> "error", value |-> outcome.value]

\* OpenAIProvider.chat_completion, lines 57-67
OpenAIOutcome(resp) ==
    IF resp.status = 200 THEN [kind |-> "text", value |-> "content"]
    ELSE [kind |-> "error", value |-> "api_error"]

\* what provider.chat_completion returns or raises once the backend call is over
ProviderOutcome(id, resp, json_error_is_transport) ==
    IF IsDeepseek(id) THEN DeepseekExcept(DeepseekTry(resp), json_error_is_transport)
    ELSE OpenAIOutcome(resp)

(***************************************************************************)
(* ModelManager                                                            *)
(***************************************************************************)
priority_order == <<"openai", "deepseek-v3", "deepseek-r1">>

\* provider.is_available() of a registered provider.  OpenAIProvider: client
\* is not None, which is what put it into the registry.  DeepseekProvider: the
\* outcome of its test request, probe_ok[id]; no exception leaves it.
IsAvailable(id, probe_ok) == IF IsDeepseek(id) THEN probe_ok[id] ELSE TRUE

\* the fallback loop without "or provider_name.startswith('deepseek')": a
\* Deepseek provider whose test request fails is passed over
RECURSIVE SelectFromProbed(_, _, _, _)
SelectFromProbed(k, registry, probe_ok, asked) ==
    IF k > Len(priority_order) THEN [current |-> "None", asked |-> asked]
    ELSE IF priority_order[k] \notin registry
    THEN SelectFromProbed(k + 1, registry, probe_ok, asked)
    ELSE IF IsAvailable(priority_order[k], probe_ok)
    THEN [current |-> priority_order[k], asked |-> Append(asked, priority_order[k])]
    ELSE SelectFromProbed(k + 1, registry, probe_ok, Append(asked, priority_order[k]))

\* the fallback loop of _select_provider from position k of priority_order:
\* the key that becomes current ("None" for none) and the providers whose
\* is_available() was called
RECURSIVE SelectFrom(_, _, _, _)
SelectFrom(k, registry, probe_ok, asked) ==
    IF k > Len(priority_order) THEN [current |-> "None", asked |-> asked]
    ELSE IF priority_order[k] \notin registry
    THEN SelectFrom(k + 1, registry, probe_ok, asked)
    ELSE IF IsAvailable(priority_order[k], probe_ok) \/ IsDeepseek(priority_order[k])
    THEN [current |-> priority_order[k], asked |-> Append(asked, priority_order[k])]
    ELSE SelectFrom(k + 1, registry, probe_ok, Append(asked, priority_order[k]))

\* _select_provider
SelectProvider(preferred, registry, probe_ok) ==
    IF preferred \in registry THEN [current |-> preferred, asked |-> <<>>]
    ELSE SelectFrom(1, registry, probe_ok, <<>>)

(***************************************************************************)
(* State                                                                   *)
(***************************************************************************)
VARIABLES
    model_name,          \* TokenManager.model_name of the optimizing manager
    file_analysis_data,  \* the argument of optimize_file_analysis_data
    opt_pc,              \* "call", "loop" or "returned"
    file_index,          \* the position of the for loop in file_analysis_data
    used_tokens,         \* the local used_tokens
    optimized_files,     \* the local optimized_files, returned at the end
    kept_index,          \* for each element of optimized_files, its input index
    aggressive_calls,    \* the input indices _compress_file_content was called for
    manager_pc,          \* "new" before ModelManager.__init__ has run, then "ready"
    providers,           \* the keys of ModelManager.providers
    current_provider,    \* the key of ModelManager.current_provider, or "None"
    preferred_provider,  \* ModelManager.preferred_provider
    probes,              \* the Deepseek providers __init__ sent a test request to
    pc,                  \* per thread: where it is in the method it runs
    chat_messages,       \* per thread: the messages argument of chat_completion
    target,              \* per thread: the provider whose method it runs
    request,             \* per thread: what the provider prepared for the backend
    switch_name,         \* per thread: the argument of switch_provider
    status,              \* per thread: the dict get_provider_status is building
    result,              \* per thread: what the method returned or raised
    attempts,            \* per thread: how often the request went out to the backend
    response,            \* per thread: what came back from the backend
    call,                \* a call of one method of TokenManager: its name and arguments
    returned,            \* what the calls made with these arguments returned or raised
    openai_client,       \* server.py: whether the module-level OpenAI client exists
    http_request,        \* the JSON body of a POST to /analyze_file_history
    srv_pc,              \* where the handler analyze_file_history stands
    payload,             \* its local payload, once json.loads returned
    http_response        \* what the handler answered

opt_vars == <<model_name, file_analysis_data, opt_pc, file_index, used_tokens,
              optimized_files, kept_index, aggressive_calls>>

mgr_vars == <<manager_pc, providers, current_provider, preferred_provider, probes>>

thread_vars == <<pc, chat_messages, target, request, switch_name, status, result,
                 attempts, response>>

fn_vars == <<call, returned>>

srv_vars == <<openai_client, http_request, srv_pc, payload, http_response>>

vars == <<opt_vars, mgr_vars, thread_vars, fn_vars, srv_vars>>

(***************************************************************************)
(* Threads calling into one ModelManager                                   *)
(***************************************************************************)
\* Thread 1 calls any method of the manager and of its providers; the further
\* threads call switch_provider.  The reading methods write no shared state,
\* so what one of them can observe depends on the writers only.
NumThreads == 2

Threads == 1..NumThreads

Callers == {1}

NoRequest ==
    [send |-> FALSE, messages |-> <<>>, validations |-> 0, optimizations |-> 0,
     error |-> "none", original |-> -1, optimized |-> -1]

NoStatus == [current |-> "unset", flagged |-> {}, index |-> 0]

NoResult == [kind |-> "none", value |-> "none"]

NoResponse == [status |-> -1, body |-> "none"]

ThreadsIdle ==
    /\ pc = [t \in Threads |-> "idle"]
    /\ chat_messages = [t \in Threads |-> <<>>]
    /\ target = [t \in Threads |-> "None"]
    /\ request = [t \in Threads |-> NoRequest]
    /\ switch_name = [t \in Threads |-> "None"]
    /\ status = [t \in Threads |-> NoStatus]
    /\ result = [t \in Threads |-> NoResult]
    /\ attempts = [t \in Threads |-> 0]
    /\ response = [t \in Threads |-> NoResponse]

\* no ModelManager exists (the state of the manager part while only
\* optimize_file_analysis_data runs)
NoManager ==
    /\ manager_pc = "none"
    /\ providers = {}
    /\ current_provider = "None"
    /\ preferred_provider = "openai"
    /\ probes = <<>>
    /\ ThreadsIdle

\* no single call of a method of TokenManager exists
NoCall ==
    /\ call = [fn |-> "none", model |-> "deepseek-v3", text |-> <<>>, target |-> 0,
               messages |-> <<>>]
    /\ returned = [estimate |-> <<>>, regular |-> <<>>, aggressive |-> <<>>, again |-> <<>>,
                   validation |-> <<>>, token_manager |-> <<>>,
                   user_content |-> <<>>]

\* A JSON value: type is "object", "array", "string", "number", "true",
\* "false" or "null"; items are the elements of an array or the
\* [key, value] members of an object, chars the characters of a string, num
\* the value of a number.
JsonValue(type, items, chars, num) ==
    [type |-> type, items |-> items, chars |-> chars, num |-> num]

JsonNull == JsonValue("null", <<>>, <<>>, 0)

NoPayload == JsonNull

NoHttpResponse == [status |-> 0, body |-> "none", summary |-> "none"]

\* no request is being handled
NoServer ==
    /\ openai_client = FALSE
    /\ http_request = [file_path |-> <<>>, file_diff |-> <<>>]
    /\ srv_pc = "none"
    /\ payload = NoPayload
    /\ http_response = NoHttpResponse

\* no optimize_file_analysis_data call exists
NoOptimizer ==
    /\ model_name = "deepseek-v3"
    /\ file_analysis_data = <<>>
    /\ opt_pc = "none"
    /\ file_index = 1
    /\ used_tokens = 0
    /\ optimized_files = <<>>
    /\ kept_index = <<>>
    /\ aggressive_calls = <<>>

\* preferred_provider is any string: the three keys and one that is never a key
PreferredChoices == ProviderIds \cup {"llama"}

\* the names switch_provider is called with
SwitchChoices == ProviderIds \cup {"llama"}

Prose(k) == <<Ln(<<>>, k)>>

\* Message lists sized against the budgets of the providers: a greeting; a
\* user message above the Deepseek budget; the same after a system message
\* that leaves too little room for what optimization makes of it; a user
\* message above the OpenAI budget; two user
\* messages that are each below _optimize_generic_content's threshold and
\* together above the Deepseek budget.
MessageChoices ==
    LET d == ProviderAvailableTokens("deepseek-v3")
        o == ProviderAvailableTokens("openai")
    IN  { HelloMessages,
          <<[role |-> "user", content |-> Prose(4 * (d + 100))]>>,
          <<[role |-> "system", content |-> Prose(3 * d)],
            [role |-> "user", content |-> Prose(4 * (d + 100))]>>,
          <<[role |-> "user", content |-> Prose(4 * (o + 100))]>>,
          <<[role |-> "user", content |-> Prose(3 * d - 4)],
            [role |-> "assistant", content |-> Prose(8)],
            [role |-> "user", content |-> Prose(3 * d)]>> }

Init ==
    /\ manager_pc = "new"
    /\ providers = {}
    /\ current_provider = "None"
    /\ preferred_provider \in PreferredChoices
    /\ probes = <<>>
    /\ ThreadsIdle
    /\ NoOptimizer
    /\ NoCall
    /\ NoServer

\* ModelManager.is_available
ManagerIsAvailable == current_provider # "None"

\* ModelManager.__init__: _init_providers registers the providers whose
\* construction succeeded (any subset: each failure is caught and skipped),
\* then _select_provider picks the current one.
Construct ==
    /\ manager_pc = "new"
    /\ \E registry \in SUBSET ProviderIds :
       \E probe_ok \in [{"deepseek-v3", "deepseek-r1"} -> BOOLEAN] :
        LET sel == SelectProvider(preferred_provider, registry, probe_ok)
        IN  /\ providers' = registry
            /\ current_provider' = sel.current
            /\ probes' = SelectSeq(sel.asked, IsDeepseek)
    /\ manager_pc' = "ready"
    /\ UNCHANGED <<preferred_provider, thread_vars, opt_vars, fn_vars, srv_vars>>

\* a thread enters ModelManager.chat_completion(messages)
ChatCall(t) ==
    /\ manager_pc = "ready"
    /\ t \in Callers
    /\ pc[t] = "idle"
    /\ \E messages \in MessageChoices : chat_messages' = [chat_messages EXCEPT ![t] = messages]
    /\ pc' = [pc EXCEPT ![t] = "mm_check"]
    /\ UNCHANGED <<mgr_vars, target, request, switch_name, status, result, attempts,
                   response, opt_vars, fn_vars, srv_vars>>

\* a thread calls chat_completion(messages) of a registered provider itself
DirectChatCall(t) ==
    /\ manager_pc = "ready"
    /\ t \in Callers
    /\ pc[t] = "idle"
    /\ \E messages \in MessageChoices : chat_messages' = [chat_messages EXCEPT ![t] = messages]
    /\ \E id \in providers : target' = [target EXCEPT ![t] = id]
    /\ pc' = [pc EXCEPT ![t] = "prepare"]
    /\ UNCHANGED <<mgr_vars, request, switch_name, status, result, attempts, response,
                   opt_vars, fn_vars, srv_vars>>

\* ChatCheck without the test of self.current_provider
ChatCheckUnguarded(t) ==
    /\ pc[t] = "mm_check"
    /\ pc' = [pc EXCEPT ![t] = "mm_load"]
    /\ UNCHANGED <<mgr_vars, chat_messages, target, request, switch_name, status, result,
                   attempts, response, opt_vars, fn_vars, srv_vars>>

\* ModelManager.chat_completion: if not self.current_provider: raise
ChatCheck(t) ==
    /\ pc[t] = "mm_check"
    /\ IF current_provider = "None"
       THEN /\ result' = [result EXCEPT ![t] = [kind |-> "error", value |-> "no_provider"]]
            /\ pc' = [pc EXCEPT ![t] = "done"]
       ELSE /\ pc' = [pc EXCEPT ![t] = "mm_load"]
            /\ UNCHANGED result
    /\ UNCHANGED <<mgr_vars, chat_messages, target, request, switch_name, status, attempts,
                   response, opt_vars, fn_vars, srv_vars>>

\* ModelManager.chat_completion: self.current_provider.chat_completion(...),
\* the second read of the attribute
ChatLoad(t) ==
    /\ pc[t] = "mm_load"
    /\ target' = [target EXCEPT ![t] = current_provider]
    /\ pc' = [pc EXCEPT ![t] = "prepare"]
    /\ UNCHANGED <<mgr_vars, chat_messages, request, switch_name, status, result, attempts,
                   response, opt_vars, fn_vars, srv_vars>>

\* provider.chat_completion up to the network call: validation, for Deepseek
\* optimization and the second validation, then the request goes out or the
\* token-limit exception is raised
ChatPrepare(t) ==
    /\ pc[t] = "prepare"
    /\ LET prepared == PrepareRequest(target[t], chat_messages[t])
       IN  /\ request' = [request EXCEPT ![t] = prepared]
           /\ IF prepared.send
              THEN /\ pc' = [pc EXCEPT ![t] = "await"]
                   /\ attempts' = [attempts EXCEPT ![t] = 1]
                   /\ UNCHANGED result
              ELSE /\ pc' = [pc EXCEPT ![t] = "done"]
                   /\ result' = [result EXCEPT ![t] =
                                    [kind |-> "error", value |-> prepared.error]]
                   /\ UNCHANGED attempts
    /\ chat_messages' = [chat_messages EXCEPT ![t] =
                             CallerMessagesAfter(target[t], chat_messages[t])]
    /\ UNCHANGED <<mgr_vars, target, switch_name, status, response, opt_vars, fn_vars, srv_vars>>

\* the session of a Deepseek provider sends the request once more, as its
\* Retry allows
TransportRetry(t) ==
    /\ pc[t] = "await"
    /\ IsDeepseek(target[t])
    /\ attempts[t] <= RetryTotal
    /\ \E resp \in Responses(target[t]) :
        /\ RetryApplies(resp)
        /\ response' = [response EXCEPT ![t] = resp]
    /\ attempts' = [attempts EXCEPT ![t] = @ + 1]
    /\ UNCHANGED <<mgr_vars, pc, chat_messages, target, request, switch_name, status, result,
                   opt_vars, fn_vars, srv_vars>>

\* the backend call is over: a response, or a failure that is not retried
\* (any more), is handed to chat_completion, and the session's count of the
\* request ends.  The provider reads neither the messages nor the outcome of
\* the validation again: they end here too.
BackendRespond(t) ==
    /\ pc[t] = "await"
    /\ \E resp \in Responses(target[t]) :
        /\ (IsDeepseek(target[t]) /\ RetryApplies(resp)) => attempts[t] > RetryTotal
        /\ response' = [response EXCEPT ![t] = resp]
    /\ pc' = [pc EXCEPT ![t] = "handle"]
    /\ attempts' = [attempts EXCEPT ![t] = 0]
    /\ chat_messages' = [chat_messages EXCEPT ![t] = <<>>]
    /\ request' = [request EXCEPT ![t] = NoRequest]
    /\ UNCHANGED <<mgr_vars, target, switch_name, status, result, opt_vars, fn_vars, srv_vars>>

\* ChatReply with a fallback: after a failure the request is handed to another
\* registered provider, which becomes the current one
ChatReplyFallback(t) ==
    /\ pc[t] = "handle"
    /\ \E json_error_is_transport \in BOOLEAN :
        LET outcome == ProviderOutcome(target[t], response[t], json_error_is_transport)
        IN  IF outcome.kind = "text" \/ providers = {target[t]}
            THEN /\ result' = [result EXCEPT ![t] = outcome]
                 /\ pc' = [pc EXCEPT ![t] = "done"]
                 /\ response' = [response EXCEPT ![t] = NoResponse]
                 /\ UNCHANGED <<mgr_vars, target>>
            ELSE /\ \E other \in providers \ {target[t]} :
                        /\ current_provider' = other
                        /\ target' = [target EXCEPT ![t] = other]
                 /\ pc' = [pc EXCEPT ![t] = "prepare"]
                 /\ UNCHANGED <<manager_pc, providers, preferred_provider, probes, result,
                                response>>
    /\ UNCHANGED <<chat_messages, request, switch_name, status, attempts, opt_vars, fn_vars, srv_vars>>

\* the provider returns the text or raises, and ModelManager.chat_completion
\* passes either on; the response ends with the call
ChatReply(t) ==
    /\ pc[t] = "handle"
    /\ \E json_error_is_transport \in BOOLEAN :
        result' = [result EXCEPT ![t] =
                      ProviderOutcome(target[t], response[t], json_error_is_transport)]
    /\ pc' = [pc EXCEPT ![t] = "done"]
    /\ response' = [response EXCEPT ![t] = NoResponse]
    /\ UNCHANGED <<mgr_vars, chat_messages, target, request, switch_name, status, attempts,
                   opt_vars, fn_vars, srv_vars>>

\* a thread enters get_provider_status()
StatusCall(t) ==
    /\ manager_pc = "ready"
    /\ t \in Callers
    /\ pc[t] = "idle"
    /\ pc' = [pc EXCEPT ![t] = "st_cond"]
    /\ UNCHANGED <<mgr_vars, chat_messages, target, request, switch_name, status, result,
                   attempts, response,
                   opt_vars, fn_vars, srv_vars>>

\* "current": ... if self.current_provider else None
StatusCond(t) ==
    /\ pc[t] = "st_cond"
    /\ IF current_provider = "None"
       THEN /\ status' = [status EXCEPT ![t].current = "None", ![t].index = 1]
            /\ pc' = [pc EXCEPT ![t] = "st_iter"]
       ELSE /\ pc' = [pc EXCEPT ![t] = "st_name"]
            /\ UNCHANGED status
    /\ UNCHANGED <<mgr_vars, chat_messages, target, request, switch_name, result, attempts,
                   response, opt_vars, fn_vars, srv_vars>>

\* "current": self.current_provider.get_provider_name()
StatusName(t) ==
    /\ pc[t] = "st_name"
    /\ status' = [status EXCEPT ![t].current = current_provider, ![t].index = 1]
    /\ pc' = [pc EXCEPT ![t] = "st_iter"]
    /\ UNCHANGED <<mgr_vars, chat_messages, target, request, switch_name, result, attempts,
                   response, opt_vars, fn_vars, srv_vars>>

\* self.providers.items(), in insertion order
RegistryItems == SelectSeq(ProviderNames, LAMBDA id : id \in providers)

\* one element of the list comprehension:
\* "is_current": provider == self.current_provider
StatusItem(t) ==
    /\ pc[t] = "st_iter"
    /\ status[t].index <= Len(RegistryItems)
    /\ LET id == RegistryItems[status[t].index]
       IN  status' = [status EXCEPT
                         ![t].flagged = IF id = current_provider THEN @ \cup {id} ELSE @,
                         ![t].index = @ + 1]
    /\ UNCHANGED <<mgr_vars, pc, chat_messages, target, request, switch_name, result,
                   attempts, response,
                   opt_vars, fn_vars, srv_vars>>

\* return status
StatusReturn(t) ==
    /\ pc[t] = "st_iter"
    /\ status[t].index > Len(RegistryItems)
    /\ result' = [result EXCEPT ![t] = [kind |-> "status", value |-> status[t].current]]
    /\ pc' = [pc EXCEPT ![t] = "done"]
    /\ UNCHANGED <<mgr_vars, chat_messages, target, request, switch_name, status, attempts,
                   response, opt_vars, fn_vars, srv_vars>>

\* a thread enters switch_provider(provider_name)
SwitchCall(t) ==
    /\ manager_pc = "ready"
    /\ pc[t] = "idle"
    /\ \E name \in SwitchChoices : switch_name' = [switch_name EXCEPT ![t] = name]
    /\ pc' = [pc EXCEPT ![t] = "sw_check"]
    /\ UNCHANGED <<mgr_vars, chat_messages, target, request, status, result, attempts,
                   response, opt_vars, fn_vars, srv_vars>>

\* SwitchReject with the lookup done before the test, as
\* self.current_provider = self.providers.get(provider_name): the current
\* provider is lost when the name is unknown
SwitchRejectClearing(t) ==
    /\ pc[t] = "sw_check"
    /\ switch_name[t] \notin providers
    /\ current_provider' = "None"
    /\ result' = [result EXCEPT ![t] = [kind |-> "error", value |-> "unknown_provider"]]
    /\ pc' = [pc EXCEPT ![t] = "done"]
    /\ UNCHANGED <<manager_pc, providers, preferred_provider, probes, chat_messages, target,
                   request, switch_name, status, attempts, response, opt_vars, fn_vars, srv_vars>>

\* if provider_name not in self.providers: raise ValueError
SwitchReject(t) ==
    /\ pc[t] = "sw_check"
    /\ switch_name[t] \notin providers
    /\ result' = [result EXCEPT ![t] = [kind |-> "error", value |-> "unknown_provider"]]
    /\ pc' = [pc EXCEPT ![t] = "done"]
    /\ UNCHANGED <<mgr_vars, chat_messages, target, request, switch_name, status, attempts,
                   response, opt_vars, fn_vars, srv_vars>>

\* SwitchAssign as self.current_provider = self.providers.get(provider_name)
\* with no test before it: an unknown name leaves no current provider
SwitchAssignLookup(t) ==
    /\ pc[t] = "sw_check"
    /\ current_provider' = IF switch_name[t] \in providers THEN switch_name[t] ELSE "None"
    /\ pc' = [pc EXCEPT ![t] = "sw_return"]
    /\ UNCHANGED <<manager_pc, providers, preferred_provider, probes, chat_messages, target,
                   request, switch_name, status, result, attempts, response, opt_vars, fn_vars, srv_vars>>

\* SwitchAssign without the membership test before it
SwitchAssignUnchecked(t) ==
    /\ pc[t] = "sw_check"
    /\ current_provider' = switch_name[t]
    /\ pc' = [pc EXCEPT ![t] = "sw_return"]
    /\ UNCHANGED <<manager_pc, providers, preferred_provider, probes, chat_messages, target,
                   request, switch_name, status, result, attempts, response, opt_vars, fn_vars, srv_vars>>

\* self.current_provider = self.providers[provider_name]
SwitchAssign(t) ==
    /\ pc[t] = "sw_check"
    /\ switch_name[t] \in providers
    /\ current_provider' = switch_name[t]
    /\ pc' = [pc EXCEPT ![t] = "sw_return"]
    /\ UNCHANGED <<manager_pc, providers, preferred_provider, probes, chat_messages, target,
                   request, switch_name, status, result, attempts, response, opt_vars, fn_vars, srv_vars>>

\* new_provider = self.current_provider.get_provider_name(); return new_provider
SwitchReturn(t) ==
    /\ pc[t] = "sw_return"
    /\ result' = [result EXCEPT ![t] = [kind |-> "switched", value |-> current_provider]]
    /\ pc' = [pc EXCEPT ![t] = "done"]
    /\ UNCHANGED <<mgr_vars, chat_messages, target, request, switch_name, status, attempts,
                   response, opt_vars, fn_vars, srv_vars>>

\* the caller has its answer; the thread is free for the next call
Finish(t) ==
    /\ pc[t] = "done"
    /\ pc' = [pc EXCEPT ![t] = "idle"]
    /\ chat_messages' = [chat_messages EXCEPT ![t] = <<>>]
    /\ target' = [target EXCEPT ![t] = "None"]
    /\ request' = [request EXCEPT ![t] = NoRequest]
    /\ switch_name' = [switch_name EXCEPT ![t] = "None"]
    /\ status' = [status EXCEPT ![t] = NoStatus]
    /\ result' = [result EXCEPT ![t] = NoResult]
    /\ attempts' = [attempts EXCEPT ![t] = 0]
    /\ response' = [response EXCEPT ![t] = NoResponse]
    /\ UNCHANGED <<mgr_vars, opt_vars, fn_vars, srv_vars>>

Next ==
    \/ Construct
    \/ \E t \in Threads :
        \/ ChatCall(t) \/ DirectChatCall(t) \/ ChatCheck(t) \/ ChatLoad(t)
        \/ ChatPrepare(t) \/ TransportRetry(t) \/ BackendRespond(t) \/ ChatReply(t)
        \/ StatusCall(t) \/ StatusCond(t) \/ StatusName(t) \/ StatusItem(t)
        \/ StatusReturn(t)
        \/ SwitchCall(t) \/ SwitchReject(t) \/ SwitchAssign(t) \/ SwitchReturn(t)
        \/ Finish(t)

Spec == Init /\ [][Next]_vars

(***************************************************************************)
(* Inputs of optimize_file_analysis_data                                   *)
(***************************************************************************)
MaxFiles == 3

OptModels == {"gpt-4", "deepseek-v3", "gpt-4.1-mini"}

ShortPath == <<Ln(<<"a">>, 0)>>

LongPath == <<Ln(<<"s", "r", "c", "/">>, 96)>>

\* Diffs sized against the budget b that is left for files: nothing, a few
\* lines of prose, prose that leaves 50 or 30 tokens of b, prose context of
\* twice the budget, and a unified diff with a hunk header, file headers,
\* changed lines and context.
DiffChoices(b) ==
    { EmptyText,
      <<Ln(<<>>, 40)>>,
      <<Ln(<<>>, 4 * (b - 60))>>,
      <<Ln(<<>>, 4 * (b - 40))>>,
      <<Ln(<<" ">>, 3 * b), Ln(<<" ">>, 3 * b), Ln(<<" ">>, 2 * b)>>,
      <<Ln(<<"-", "-", "-", " ", "a", "/">>, 10), Ln(<<"+", "+", "+", " ", "b", "/">>, 10),
        Ln(<<"@", "@", " ", "-", "1", " ", "+", "1", " ", "@", "@">>, 0),
        Ln(<<" ">>, b), Ln(<<"-">>, b), Ln(<<"+">>, b), Ln(<<"+", "(", ")">>, 20),
        Ln(<<"+">>, 5), Ln(<<"+">>, 7), Ln(<<" ">>, b)>> }

\* the diffs that also come under the long path
LongPathDiffs(b) == {d \in DiffChoices(b) : Len(d) = 10 \/ d = <<Ln(<<>>, 4 * (b - 40))>>}

FileChoices(b) ==
    {[filePath |-> ShortPath, diffContent |-> d] : d \in DiffChoices(b)}
    \cup {[filePath |-> LongPath, diffContent |-> d] : d \in LongPathDiffs(b)}

FileLists(b) == UNION {[1..k -> FileChoices(b)] : k \in 0..MaxFiles}

(***************************************************************************)
(* optimize_file_analysis_data                                             *)
(***************************************************************************)
InitOpt ==
    /\ model_name \in OptModels
    /\ file_analysis_data \in FileLists(AvailableForFiles(model_name))
    /\ opt_pc = "call"
    /\ file_index = 1
    /\ used_tokens = 0
    /\ optimized_files = <<>>
    /\ kept_index = <<>>
    /\ aggressive_calls = <<>>
    /\ NoManager
    /\ NoCall
    /\ NoServer

\* entry: the two early returns of [], then the loop starts
OptimizeCall ==
    /\ opt_pc = "call"
    /\ opt_pc' = IF \/ file_analysis_data = <<>>
                    \/ AvailableForFiles(model_name) < MinAvailableForFiles
                 THEN "returned" ELSE "loop"
    /\ UNCHANGED <<model_name, file_analysis_data, file_index, used_tokens,
                   optimized_files, kept_index, aggressive_calls>>
    /\ UNCHANGED <<mgr_vars, thread_vars, fn_vars, srv_vars>>

\* the body of the loop without the break after the failed second attempt
LoopBodyNoBreak(file_data, used, available_for_files, dn) ==
    LET optimized_file == OptimizeSingleFile(file_data, available_for_files - used, dn)
        file_tokens == EstimateFileTokens(optimized_file[1])
        remaining_tokens == available_for_files - used
    IN  IF optimized_file = <<>>
        THEN [files |-> <<>>, used |-> used, stop |-> FALSE, aggressive |-> FALSE]
        ELSE IF used + file_tokens <= available_for_files
        THEN [files |-> optimized_file, used |-> used + file_tokens,
              stop |-> FALSE, aggressive |-> FALSE]
        ELSE IF remaining_tokens > MinRemainingTokens
        THEN [files |-> CompressFileContent(optimized_file[1], remaining_tokens),
              used |-> used, stop |-> FALSE, aggressive |-> TRUE]
        ELSE [files |-> <<>>, used |-> used, stop |-> FALSE, aggressive |-> FALSE]

\* the body of the loop with the second attempt made for whatever remains
LoopBodyEager(file_data, used, available_for_files, dn) ==
    LET optimized_file == OptimizeSingleFile(file_data, available_for_files - used, dn)
        file_tokens == EstimateFileTokens(optimized_file[1])
        remaining_tokens == available_for_files - used
    IN  IF optimized_file = <<>>
        THEN [files |-> <<>>, used |-> used, stop |-> FALSE, aggressive |-> FALSE]
        ELSE IF used + file_tokens <= available_for_files
        THEN [files |-> optimized_file, used |-> used + file_tokens,
              stop |-> FALSE, aggressive |-> FALSE]
        ELSE [files |-> CompressFileContent(optimized_file[1], remaining_tokens),
              used |-> used, stop |-> TRUE, aggressive |-> TRUE]

\* the body of the for loop, for one file_data: the file appended to
\* optimized_files (if any), the new used_tokens, whether the loop breaks, and
\* whether _compress_file_content was called
LoopBody(file_data, used, available_for_files, dn) ==
    LET optimized_file == OptimizeSingleFile(file_data, available_for_files - used, dn)
        file_tokens == EstimateFileTokens(optimized_file[1])
        remaining_tokens == available_for_files - used
    IN  IF optimized_file = <<>>
        THEN [files |-> <<>>, used |-> used, stop |-> FALSE, aggressive |-> FALSE]
        ELSE IF used + file_tokens <= available_for_files
        THEN [files |-> optimized_file, used |-> used + file_tokens,
              stop |-> FALSE, aggressive |-> FALSE]
        ELSE IF remaining_tokens > MinRemainingTokens
        THEN [files |-> CompressFileContent(optimized_file[1], remaining_tokens),
              used |-> used, stop |-> TRUE, aggressive |-> TRUE]
        ELSE [files |-> <<>>, used |-> used, stop |-> TRUE, aggressive |-> FALSE]

\* an assignment of the reference in place of file_data.copy()
DictCopyAlias(ref) == ref

\* file_data.copy() of lines 143 and 169, for the dict with the given
\* reference: a new dict, written 0; a positive number is the dict at that
\* index of the caller's list.
DictCopy(ref) == 0

\* The caller's dict at index after the iteration for it: line 158 stores
\* the compressed diff in the copy of line 143, line 175 stores the
\* aggressively compressed diff in the copy of line 169.
InputAfterIteration(file_data, index, used, available_for_files, dn) ==
    LET optimized_file == OptimizeSingleFile(file_data, available_for_files - used, dn)
        body == LoopBody(file_data, used, available_for_files, dn)
        after_single == IF optimized_file # <<>> /\ DictCopy(index) = index
                        THEN optimized_file[1] ELSE file_data
    IN  IF body.aggressive /\ body.files # <<>> /\ DictCopy(DictCopy(index)) = index
        THEN body.files[1]
        ELSE after_single

\* one iteration of the for loop over file_analysis_data
OptimizeIteration ==
    /\ opt_pc = "loop"
    /\ file_index <= Len(file_analysis_data)
    /\ \E dn \in {0, 1} :
        LET body == LoopBody(file_analysis_data[file_index], used_tokens,
                             AvailableForFiles(model_name), dn)
        IN  /\ optimized_files' = optimized_files \o body.files
            /\ kept_index' = IF body.files = <<>> THEN kept_index
                             ELSE Append(kept_index, file_index)
            /\ used_tokens' = body.used
            /\ aggressive_calls' = IF body.aggressive
                                   THEN Append(aggressive_calls, file_index)
                                   ELSE aggressive_calls
            /\ opt_pc' = IF body.stop \/ file_index = Len(file_analysis_data)
                         THEN "returned" ELSE "loop"
            /\ file_analysis_data' =
                   [file_analysis_data EXCEPT ![file_index] =
                       InputAfterIteration(file_analysis_data[file_index], file_index,
                                           used_tokens, AvailableForFiles(model_name), dn)]
    /\ file_index' = file_index + 1
    /\ UNCHANGED model_name
    /\ UNCHANGED <<mgr_vars, thread_vars, fn_vars, srv_vars>>

NextOpt == OptimizeCall \/ OptimizeIteration

SpecOpt == InitOpt /\ [][NextOpt]_vars

\* the two places where the service optimizes what a caller handed in: a
\* run is either the threads around a ModelManager or one call of
\* optimize_file_analysis_data
SpecOptimizers == (Init \/ InitOpt) /\ [][Next \/ NextOpt]_vars

(***************************************************************************)
(* Single calls of the methods of TokenManager                             *)
(***************************************************************************)
\* TokenManager.__init__ without the second assignment of line 34
TokenManagerInitStale(name) ==
    [max_tokens |-> MODEL_LIMITS(name),
     RESPONSE_TOKENS |-> IF MODEL_LIMITS(name) > LargeContextThreshold
                         THEN LargeResponseTokens ELSE RESPONSE_TOKENS,
     available_tokens |-> MODEL_LIMITS(name) - RESPONSE_TOKENS]

\* TokenManager.__init__: the three attributes it leaves on the instance
TokenManagerInit(name) ==
    [max_tokens |-> MODEL_LIMITS(name),
     RESPONSE_TOKENS |-> IF MODEL_LIMITS(name) > LargeContextThreshold
                         THEN LargeResponseTokens ELSE RESPONSE_TOKENS,
     available_tokens |-> IF MODEL_LIMITS(name) > LargeContextThreshold
                          THEN MODEL_LIMITS(name) - LargeResponseTokens
                          ELSE MODEL_LIMITS(name) - RESPONSE_TOKENS]

\* estimate_tokens(text) for an argument that may be None: <<>> is None,
\* <<t>> the string t; "if not text" returns 0 for None and for ''
EstimateTokensOf(text) == IF text = <<>> THEN 0 ELSE EstimateTokens(text[1])

\* _compress_diff_content divides target_tokens by current_tokens before it
\* looks at the mode: with an estimate of 0 above the target the division
\* raises ZeroDivisionError
CompressDiffRaises(diff_content, target_tokens) ==
    /\ TextLen(diff_content) # 0
    /\ EstimateTokens(diff_content) > target_tokens
    /\ EstimateTokens(diff_content) = 0

\* how a call of _compress_diff_content ends: an exception or a string
CompressDiffOutcome(diff_content, target_tokens, aggressive, dn) ==
    IF CompressDiffRaises(diff_content, target_tokens)
    THEN [raised |-> TRUE, value |-> EmptyText]
    ELSE [raised |-> FALSE,
          value |-> CompressDiffContent(diff_content, target_tokens, aggressive, dn)]

MaxTextLines == 3

\* the lines the texts are made of: an empty line, a context line, an added
\* and a removed line, a hunk header, a file header, a line of code with two
\* indicators and a line of prose
LineChoices ==
    { EmptyLine,
      Ln(<<" ">>, 8),
      Ln(<<"+">>, 9),
      Ln(<<"-">>, 6),
      Ln(<<"@", "@", " ", "-", "1", " ", "+", "1", " ", "@", "@">>, 0),
      Ln(<<"+", "+", "+", " ", "b", "/">>, 3),
      Ln(<<"d", "e", "f", " ", "f", "(", ")", ":">>, 0),
      Ln(<<>>, 13) }

\* texts longer than MaxTextLines allows: one long added line, one long
\* context line, five added lines after a hunk header, and a unified diff
LongTexts ==
    { <<Ln(<<"+">>, 99)>>,
      <<Ln(<<"+">>, 400)>>,
      <<Ln(<<" ">>, 200)>>,
      <<Ln(<<"@", "@", " ", "-", "1", " ", "+", "1", " ", "@", "@">>, 0),
        Ln(<<"+">>, 30), Ln(<<"+">>, 31), Ln(<<"+">>, 32), Ln(<<"+">>, 33), Ln(<<"+">>, 34)>>,
      <<Ln(<<"-", "-", "-", " ", "a", "/">>, 10), Ln(<<"+", "+", "+", " ", "b", "/">>, 10),
        Ln(<<"@", "@", " ", "-", "1", " ", "+", "1", " ", "@", "@">>, 0),
        Ln(<<" ">>, 40), Ln(<<"-">>, 40), Ln(<<"+">>, 40), Ln(<<"+", "(", ")">>, 20),
        Ln(<<" ">>, 40)>> }

TextChoices == UNION {[1..k -> LineChoices] : k \in 1..MaxTextLines} \cup LongTexts

\* the budgets a text is compressed to, token counts: nothing, half of its
\* estimate, one below, exactly and one above its estimate (the callers,
\* _optimize_single_file and _compress_file_content, pass at least 20)
BudgetChoices(t) ==
    {b \in {0, EstimateTokens(t) \div 2, EstimateTokens(t) - 1, EstimateTokens(t),
             EstimateTokens(t) + 1} : b >= 0}

\* model names: the keys of MODEL_LIMITS and one that is not a key
ModelChoices == KnownModels \cup {"llama-3"}

\* message lists for validate_prompt_size: those of the chat calls, none,
\* one of 50000 estimated tokens, one that meets the budget of the default
\* model exactly, and one with a content that counts as code
ValidateChoices ==
    MessageChoices
    \cup { <<>>,
           <<[role |-> "user", content |-> Prose(200000)]>>,
           <<[role |-> "user", content |-> Prose(4 * AvailableTokens("deepseek-v3"))]>>,
           <<[role |-> "system", content |-> <<Ln(<<"d", "e", "f", " ", "f", "(", ")", ":">>, 0)>>],
             [role |-> "user", content |-> Prose(4 * AvailableTokens("gpt-4") - 3)]>> }

\* build_comprehensive_commit_analysis_prompt of server.py, abridged: of the
\* lines before the files the commit information and the title of the file
\* section, of the lines after them the opening of the request and its
\* first item
PromptHead ==
    <<Ln(<<"u63D0", "u4EA4", "u4FE1", "u606F", "uFF1A">>, 0),
      Ln(<<"-", " ", "u63D0", "u4EA4", "u54C8", "u5E0C", ":", " ", "h">>, 0),
      EmptyLine,
      Ln(<<"u4E3B", "u8981", "u6587", "u4EF6", "u53D8", "u66F4", "uFF1A">>, 0)>>

PromptTail ==
    <<EmptyLine,
      Ln(<<"u8BF7", "u63D0", "u4F9B", "u4E00", "u4E2A", "u7EFC", "u5408", "u6027", "u7684", "u5206", "u6790", "u62A5", "u544A", "uFF0C", "u5305", "u62EC", "uFF1A">>, 0),
      Ln(<<"1", ".", " ", "u8FD9", "u6B21", "u63D0", "u4EA4", "u7684", "u4E3B", "u8981", "u76EE", "u7684", "u548C", "u610F", "u56FE">>, 0)>>

\* the lines the loop of lines 191-200 adds for the file at index (from 1):
\* the numbered path, the change type, 'diff content:' and the diff in a
\* fence, its first line after three spaces
FileEntryLines(index, file_data) ==
    <<EmptyLine,
      Ln(Str(index) \o <<".", " ", "u6587", "u4EF6", ":", " ">> \o file_data.filePath[1].h,
         file_data.filePath[1].n),
      Ln(<<" ", " ", " ", "u53D8", "u66F4", "u7C7B", "u578B", ":", " ", "u4FEE", "u6539">>, 0),
      Ln(<<" ", " ", " ">>, 0),
      Ln(<<" ", " ", " ", "u5DEE", "u5F02", "u5185", "u5BB9", ":">>, 0),
      Ln(<<" ", " ", " ", "u0060", "u0060", "u0060", "d", "i", "f", "f">>, 0),
      Ln(<<" ", " ", " ">> \o file_data.diffContent[1].h, file_data.diffContent[1].n)>>
    \o Tail(file_data.diffContent)
    \o <<Ln(<<" ", " ", " ", "u0060", "u0060", "u0060">>, 0)>>

RECURSIVE FileEntriesFrom(_, _)
FileEntriesFrom(files, index) ==
    IF index > Len(files) THEN <<>>
    ELSE FileEntryLines(index, files[index]) \o FileEntriesFrom(files, index + 1)

CommitAnalysisPrompt(files) == PromptHead \o FileEntriesFrom(files, 1) \o PromptTail

\* files of a commit: paths a.py to d.py, each with a diff of its own
PromptFile(path, diff_content) == [filePath |-> path, diffContent |-> diff_content]

FileA == PromptFile(<<Ln(<<"a", ".", "p", "y">>, 0)>>, <<Ln(<<"+", "f", "i", "r", "s", "t">>, 0)>>)

FileB ==
    PromptFile(<<Ln(<<"b", ".", "p", "y">>, 0)>>,
               <<Ln(<<"+", "s", "e", "c", "o", "n", "d">>, 0), Ln(<<" ">>, 12),
                 Ln(<<"-", "g", "o", "n", "e">>, 0)>>)

FileC == PromptFile(<<Ln(<<"c", ".", "p", "y">>, 0)>>, <<Ln(<<"+", "t", "h", "i", "r", "d">>, 0)>>)

FileD == PromptFile(<<Ln(<<"d", ".", "p", "y">>, 0)>>, <<Ln(<<"-", "f", "o", "u", "r", "t", "h">>, 0)>>)

\* user contents for _optimize_user_content: commit prompts for one to four
\* files, and a text that is no such prompt
PromptChoices ==
    {CommitAnalysisPrompt(fs) :
        fs \in {<<FileA>>, <<FileA, FileB>>, <<FileB, FileA>>, <<FileA, FileB, FileC>>,
                <<FileC, FileA, FileB, FileD>>}}
    \cup {<<Ln(<<"H", "e", "l", "l", "o">>, 0)>>}

CallRecord(fn, name, text, target_tokens, messages) ==
    [fn |-> fn, model |-> name, text |-> text, target |-> target_tokens,
     messages |-> messages]

CallChoices ==
    {CallRecord("__init__", m, <<>>, 0, <<>>) : m \in ModelChoices}
    \cup {CallRecord("estimate_tokens", "deepseek-v3", o, 0, <<>>) :
              o \in {<<>>} \cup {<<t>> : t \in TextChoices}}
    \cup UNION {{CallRecord("_compress_diff_content", "deepseek-v3", <<t>>, b, <<>>) :
                     b \in BudgetChoices(t)} : t \in TextChoices}
    \cup {CallRecord("validate_prompt_size", mm[1], <<>>, 0, mm[2]) :
              mm \in ModelChoices \X ValidateChoices}
    \cup {CallRecord("_optimize_user_content", "deepseek-v3", <<t>>, 0, <<>>) :
              t \in PromptChoices}

InitFn ==
    /\ call \in CallChoices
    /\ returned = [estimate |-> <<>>, regular |-> <<>>, aggressive |-> <<>>, again |-> <<>>,
                   validation |-> <<>>, token_manager |-> <<>>,
                   user_content |-> <<>>]
    /\ NoManager
    /\ ThreadsIdle
    /\ NoOptimizer
    /\ NoServer

\* TokenManager(model_name)
TokenManagerInitCall ==
    /\ call.fn = "__init__"
    /\ returned.token_manager = <<>>
    /\ returned' = [returned EXCEPT !.token_manager = <<TokenManagerInit(call.model)>>]
    /\ UNCHANGED <<call, opt_vars, mgr_vars, thread_vars, srv_vars>>

\* estimate_tokens(text)
EstimateTokensCall ==
    /\ call.fn = "estimate_tokens"
    /\ returned.estimate = <<>>
    /\ returned' = [returned EXCEPT !.estimate = <<EstimateTokensOf(call.text)>>]
    /\ UNCHANGED <<call, opt_vars, mgr_vars, thread_vars, srv_vars>>

\* _compress_diff_content(diff_content, target_tokens, aggressive=False)
CompressRegularCall ==
    /\ call.fn = "_compress_diff_content"
    /\ returned.regular = <<>>
    /\ \E dn \in {0, 1} :
        returned' = [returned EXCEPT !.regular =
                        <<CompressDiffOutcome(call.text[1], call.target, FALSE, dn)>>]
    /\ UNCHANGED <<call, opt_vars, mgr_vars, thread_vars, srv_vars>>

\* _compress_diff_content(diff_content, target_tokens, aggressive=True)
CompressAggressiveCall ==
    /\ call.fn = "_compress_diff_content"
    /\ returned.aggressive = <<>>
    /\ returned' = [returned EXCEPT !.aggressive =
                        <<CompressDiffOutcome(call.text[1], call.target, TRUE, 0)>>]
    /\ UNCHANGED <<call, opt_vars, mgr_vars, thread_vars, srv_vars>>

\* _compress_diff_content(out, target_tokens, aggressive=False) for the
\* string out that the structural call returned for the same budget
CompressAgainCall ==
    /\ call.fn = "_compress_diff_content"
    /\ returned.regular # <<>>
    /\ ~returned.regular[1].raised
    /\ returned.again = <<>>
    /\ \E dn \in {0, 1} :
        returned' = [returned EXCEPT !.again =
                        <<CompressDiffOutcome(returned.regular[1].value, call.target,
                                              FALSE, dn)>>]
    /\ UNCHANGED <<call, opt_vars, mgr_vars, thread_vars, srv_vars>>

\* TokenManager(model_name).validate_prompt_size(messages)
ValidatePromptSizeCall ==
    /\ call.fn = "validate_prompt_size"
    /\ returned.validation = <<>>
    /\ returned' = [returned EXCEPT !.validation =
                        <<ValidatePromptSize(call.model, call.messages)>>]
    /\ UNCHANGED <<call, opt_vars, mgr_vars, thread_vars, srv_vars>>

\* DeepseekProvider(model)._optimize_user_content(content)
OptimizeUserContentCall ==
    /\ call.fn = "_optimize_user_content"
    /\ returned.user_content = <<>>
    /\ returned' = [returned EXCEPT !.user_content =
                        <<OptimizeUserContent(call.model, call.text[1])>>]
    /\ UNCHANGED <<call, opt_vars, mgr_vars, thread_vars, srv_vars>>

NextFn ==
    \/ TokenManagerInitCall
    \/ EstimateTokensCall
    \/ CompressRegularCall
    \/ CompressAggressiveCall
    \/ CompressAgainCall
    \/ ValidatePromptSizeCall
    \/ OptimizeUserContentCall

SpecFn == InitFn /\ [][NextFn]_vars

(***************************************************************************)
(* server.py: json.loads, as far as the handlers need it                   *)
(***************************************************************************)
\* the characters of one line and of a text, the newlines between its lines
\* included
LineChars(l) == l.h \o [i \in 1..l.n |-> "x"]

RECURSIVE Chars(_)
Chars(t) ==
    IF Len(t) = 1 THEN LineChars(t[1])
    ELSE LineChars(Head(t)) \o <<"\n">> \o Chars(Tail(t))


\* the outcome of a parsing step: JSONDecodeError, or a value and the index
\* of the first character after it
JsonError == [ok |-> FALSE, value |-> JsonNull, pos |-> 0]

JsonParsed(value, pos) == [ok |-> TRUE, value |-> value, pos |-> pos]

JsonWhitespace == {" ", "\t", "\n", "\r"}

RECURSIVE SkipWhitespace(_, _)
SkipWhitespace(s, i) ==
    IF i <= Len(s) /\ s[i] \in JsonWhitespace THEN SkipWhitespace(s, i + 1) ELSE i

RECURSIVE StringEnd(_, _)
\* the index of the quote that closes a string whose characters start at i,
\* or 0: a string may not hold a control character, and the texts parsed
\* here hold no backslash
StringEnd(s, i) ==
    IF i > Len(s) THEN 0
    ELSE IF s[i] = "\"" THEN i
    ELSE IF s[i] \in {"\n", "\r", "\t", "\\"} THEN 0
    ELSE StringEnd(s, i + 1)

RECURSIVE DigitsEnd(_, _)
\* the index after the run of digits that starts at i
DigitsEnd(s, i) == IF i <= Len(s) /\ s[i] \in Digits THEN DigitsEnd(s, i + 1) ELSE i

DigitValue(c) == CHOOSE d \in 0..9 : Digit(d) = c

RECURSIVE NumberValue(_, _, _)
NumberValue(s, i, j) ==
    IF j < i THEN 0 ELSE 10 * NumberValue(s, i, j - 1) + DigitValue(s[j])

\* a number at i: an optional minus and digits without a leading zero; the
\* texts parsed here hold no fraction and no exponent
ParseNumber(s, i) ==
    LET first == IF s[i] = "-" THEN i + 1 ELSE i
        after == IF first <= Len(s) /\ s[first] = "0" THEN first + 1
                 ELSE DigitsEnd(s, first)
        magnitude == NumberValue(s, first, after - 1)
    IN  IF after = first THEN JsonError
        ELSE JsonParsed(JsonValue("number", <<>>, <<>>,
                                  IF s[i] = "-" THEN -magnitude ELSE magnitude), after)

HasLiteral(s, i, word) ==
    i + Len(word) - 1 <= Len(s) /\ SubSeq(s, i, i + Len(word) - 1) = word

RECURSIVE ParseValue(_, _)
RECURSIVE ParseElements(_, _, _)
RECURSIVE ParseMembers(_, _, _)
\* the elements of an array after '[' or ',': a value, then ',' or ']'
ParseElements(s, i, items) ==
    LET element == ParseValue(s, SkipWhitespace(s, i))
        next == SkipWhitespace(s, element.pos)
    IN  IF ~element.ok \/ next > Len(s) THEN JsonError
        ELSE IF s[next] = "]"
        THEN JsonParsed(JsonValue("array", Append(items, element.value), <<>>, 0), next + 1)
        ELSE IF s[next] = ","
        THEN ParseElements(s, next + 1, Append(items, element.value))
        ELSE JsonError

\* the members of an object after '{' or ',': a string, ':', a value, then
\* ',' or '}'
ParseMembers(s, i, items) ==
    LET open == SkipWhitespace(s, i)
        close == IF open <= Len(s) /\ s[open] = "\"" THEN StringEnd(s, open + 1) ELSE 0
        colon == SkipWhitespace(s, close + 1)
        member == IF close > 0 /\ colon <= Len(s) /\ s[colon] = ":"
                  THEN ParseValue(s, SkipWhitespace(s, colon + 1))
                  ELSE JsonError
        next == SkipWhitespace(s, member.pos)
        added == Append(items, [key |-> SubSeq(s, open + 1, close - 1),
                                value |-> member.value])
    IN  IF ~member.ok \/ next > Len(s) THEN JsonError
        ELSE IF s[next] = "}"
        THEN JsonParsed(JsonValue("object", added, <<>>, 0), next + 1)
        ELSE IF s[next] = ","
        THEN ParseMembers(s, next + 1, added)
        ELSE JsonError

\* the value that starts at i
ParseValue(s, i) ==
    IF i > Len(s) THEN JsonError
    ELSE IF s[i] = "\""
    THEN LET close == StringEnd(s, i + 1)
         IN  IF close = 0 THEN JsonError
             ELSE JsonParsed(JsonValue("string", <<>>, SubSeq(s, i + 1, close - 1), 0),
                             close + 1)
    ELSE IF s[i] = "{"
    THEN LET next == SkipWhitespace(s, i + 1)
         IN  IF next <= Len(s) /\ s[next] = "}"
             THEN JsonParsed(JsonValue("object", <<>>, <<>>, 0), next + 1)
             ELSE ParseMembers(s, i + 1, <<>>)
    ELSE IF s[i] = "["
    THEN LET next == SkipWhitespace(s, i + 1)
         IN  IF next <= Len(s) /\ s[next] = "]"
             THEN JsonParsed(JsonValue("array", <<>>, <<>>, 0), next + 1)
             ELSE ParseElements(s, i + 1, <<>>)
    ELSE IF HasLiteral(s, i, <<"n", "u", "l", "l">>)
    THEN JsonParsed(JsonNull, i + 4)
    ELSE IF HasLiteral(s, i, <<"t", "r", "u", "e">>)
    THEN JsonParsed(JsonValue("true", <<>>, <<>>, 0), i + 4)
    ELSE IF HasLiteral(s, i, <<"f", "a", "l", "s", "e">>)
    THEN JsonParsed(JsonValue("false", <<>>, <<>>, 0), i + 5)
    ELSE IF s[i] \in Digits \cup {"-"} THEN ParseNumber(s, i)
    ELSE JsonError

\* json.loads(text): one value with whitespace around it and nothing else
JsonLoads(t) ==
    LET s == Chars(t)
        parsed == ParseValue(s, SkipWhitespace(s, 1))
    IN  IF parsed.ok /\ SkipWhitespace(s, parsed.pos) > Len(s) THEN parsed ELSE JsonError

(***************************************************************************)
(* server.py: the handler of POST /analyze_file_history                    *)
(***************************************************************************)
\* dict.get(key) for a parsed object: <<>> when the key is missing, else the
\* value of the last member with that key
JsonGet(obj, key) ==
    LET at == {k \in 1..Len(obj.items) : obj.items[k].key = key}
    IN  IF at = {} THEN <<>>
        ELSE <<obj.items[CHOOSE k \in at : \A j \in at : j <= k].value>>

\* bool(value) for a parsed value
JsonTruthy(v) ==
    CASE v.type \in {"null", "false"} -> FALSE
      [] v.type = "true" -> TRUE
      [] v.type = "number" -> v.num # 0
      [] v.type = "string" -> v.chars # <<>>
      [] OTHER -> v.items # <<>>

\* value of a key, with the default the code gives for a missing key
JsonGetOr(obj, key, default) ==
    IF JsonGet(obj, key) = <<>> THEN default ELSE JsonGet(obj, key)[1]

KeyCommits == <<"c", "o", "m", "m", "i", "t", "s">>

KeyAuthor == <<"a", "u", "t", "h", "o", "r">>

KeyAuthorDate == <<"a", "u", "t", "h", "o", "r", "D", "a", "t", "e">>

KeyFileChange == <<"f", "i", "l", "e", "C", "h", "a", "n", "g", "e">>

KeyType == <<"t", "y", "p", "e">>

KeyMessage == <<"m", "e", "s", "s", "a", "g", "e">>

KeyAdditions == <<"a", "d", "d", "i", "t", "i", "o", "n", "s">>

KeyDeletions == <<"d", "e", "l", "e", "t", "i", "o", "n", "s">>

IsJsonNumber(v) == v.type \in {"number", "true", "false"}

\* build_file_history_analysis_prompt raises for this element of commits:
\* it must be a dict (commit.get); additions and deletions, unless falsy,
\* are added to an int; author becomes a dict key; authorDate goes to
\* datetime.fromtimestamp; fileChange must have .get and its type is looked
\* up in a dict; message must have .split
CommitRaises(commit) ==
    \/ commit.type # "object"
    \/ \E k \in {KeyAdditions, KeyDeletions} :
        LET v == JsonGetOr(commit, k, JsonNull)
        IN  JsonTruthy(v) /\ ~IsJsonNumber(v)
    \/ JsonGetOr(commit, KeyAuthor, JsonNull).type \in {"array", "object"}
    \/ ~IsJsonNumber(JsonGetOr(commit, KeyAuthorDate, JsonValue("number", <<>>, <<>>, 0)))
    \/ LET change == JsonGetOr(commit, KeyFileChange, JsonValue("object", <<>>, <<>>, 0))
       IN  \/ change.type # "object"
           \/ JsonGetOr(change, KeyType, JsonNull).type \in {"array", "object"}
    \/ JsonGetOr(commit, KeyMessage, JsonValue("string", <<>>, <<>>, 0)).type # "string"

\* build_file_history_analysis_prompt(payload) raises: len(commits) needs a
\* sized value, and every element of a string or key of a dict is a str
\* without .get
BuildPromptRaises(parsed) ==
    LET commits == JsonGetOr(parsed, KeyCommits, JsonValue("array", <<>>, <<>>, 0))
    IN  \/ commits.type \in {"number", "true", "false", "null"}
        \/ commits.type = "string" /\ commits.chars # <<>>
        \/ commits.type = "object" /\ commits.items # <<>>
        \/ commits.type = "array"
               /\ \E k \in 1..Len(commits.items) : CommitRaises(commits.items[k])

RequiredFields ==
    { <<"s", "u", "m", "m", "a", "r", "y">>,
      <<"e", "v", "o", "l", "u", "t", "i", "o", "n", "P", "a", "t", "t", "e", "r",
        "n">>,
      <<"k", "e", "y", "C", "h", "a", "n", "g", "e", "s">>,
      <<"r", "e", "c", "o", "m", "m", "e", "n", "d", "a", "t", "i", "o", "n", "s">> }

JsonStringOf(chars) == JsonValue("string", <<>>, chars, 0)

\* lines 499-506 for the stripped content of the reply: "kept" when it
\* parses and every required key is "in" the parsed value (a key of a dict,
\* an element of a list, a substring of a str), "fallback" when
\* json.loads fails or a key is missing, "raises" when the value does not
\* support "in" (TypeError, which line 504 does not catch)
ValidateReply(content) ==
    LET parsed == JsonLoads(content)
        value == parsed.value
        has(field) ==
            CASE value.type = "object" -> JsonGet(value, field) # <<>>
              [] value.type = "array" ->
                    \E k \in 1..Len(value.items) : value.items[k] = JsonStringOf(field)
              [] OTHER -> Contains(value.chars, field)
    IN  IF ~parsed.ok THEN "fallback"
        ELSE IF value.type \in {"number", "true", "false", "null"} THEN "raises"
        ELSE IF \A field \in RequiredFields : has(field) THEN "kept"
        ELSE "fallback"

\* the body the test sends, abridged: the opening lines and the first
\* history entry of its description
TestPrompt ==
    <<Ln(<<>>, 0),
      Ln(<<"u8BF7", "u5206", "u6790", "u4EE5", "u4E0B", "u6587", "u4EF6", "u7684",
           "u5386", "u53F2", "u6F14", "u8FDB", "u60C5", "u51B5", "uFF1A">>, 0),
      Ln(<<>>, 0),
      Ln(<<"u6587", "u4EF6", "u8DEF", "u5F84", ":", " ", "s", "r", "c", "/", "m",
           "a", "i", "n", ".", "t", "s">>, 0),
      Ln(<<"u603B", "u63D0", "u4EA4", "u6B21", "u6570", ":", " ", "1", "5">>, 0),
      Ln(<<>>, 0),
      Ln(<<"1", ".", " ", "[", "2", "0", "2", "4", "-", "0", "1", "-", "1", "5",
           "]", " ", "A", "l", "i", "c", "e">>, 0),
      Ln(<<" ", " ", " ", "u53D8", "u66F4", ":", " ", "u4FEE", "u6539", " ", "(",
           "+", "4", "5", "/", "-", "1", "2", ")">>, 0),
      Ln(<<>>, 0)>>

RequestPath == <<Ln(<<"s", "r", "c", "/", "m", "a", "i", "n", ".", "t", "s">>, 0)>>

\* history descriptions in plain text
HistoryDescriptions ==
    { TestPrompt,
      <<Ln(<<"h", "i", "s", "t", "o", "r", "y", " ", "o", "f", " ", "a">>, 0)>> }

\* file_diff as the handler expects it: JSON texts, with and without usable
\* commits
JsonPayloads ==
    { <<Ln(<<"{", "}">>, 0)>>,
      <<Ln(<<"[", "]">>, 0)>>,
      <<Ln(<<"1", "5">>, 0)>>,
      <<Ln(<<"n", "u", "l", "l">>, 0)>>,
      <<Ln(<<"{", "\"", "c", "o", "m", "m", "i", "t", "s", "\"", ":", " ", "[",
             "]", "}">>, 0)>>,
      <<Ln(<<"{", "\"", "f", "i", "l", "e", "P", "a", "t", "h", "\"", ":", " ",
             "\"", "a", "\"", ",", " ", "\"", "c", "o", "m", "m", "i", "t", "s",
             "\"", ":", " ", "[", "{", "\"", "a", "u", "t", "h", "o", "r", "\"",
             ":", " ", "\"", "A", "\"", ",", " ", "\"", "a", "u", "t", "h", "o",
             "r", "D", "a", "t", "e", "\"", ":", " ", "5", "}", "]", "}">>, 0)>>,
      <<Ln(<<"{", "\"", "c", "o", "m", "m", "i", "t", "s", "\"", ":", " ", "[",
             "{", "\"", "m", "e", "s", "s", "a", "g", "e", "\"", ":", " ", "\"",
             "m", "\"", "}", ",", " ", "{", "\"", "a", "u", "t", "h", "o", "r",
             "\"", ":", " ", "\"", "B", "\"", ",", " ", "\"", "a", "d", "d", "i",
             "t", "i", "o", "n", "s", "\"", ":", " ", "2", "}", "]", "}">>, 0)>>,
      <<Ln(<<"{", "\"", "c", "o", "m", "m", "i", "t", "s", "\"", ":", " ", "[",
             "1", "]", "}">>, 0)>>,
      <<Ln(<<"{", "\"", "c", "o", "m", "m", "i", "t", "s", "\"", ":", " ", "\"",
             "a", "b", "c", "\"", "}">>, 0)>>,
      <<Ln(<<"{", "\"", "c", "o", "m", "m", "i", "t", "s", "\"", ":", " ", "5", "}">>, 0)>>,
      <<Ln(<<"{", "\"", "c", "o", "m", "m", "i", "t", "s", "\"", ":", " ", "[",
             "{", "\"", "a", "u", "t", "h", "o", "r", "D", "a", "t", "e", "\"",
             ":", " ", "\"", "y", "\"", "}", "]", "}">>, 0)>>,
      <<Ln(<<"{", "\"", "c", "o", "m", "m", "i", "t", "s", "\"", ":", " ", "[",
             "{", "\"", "f", "i", "l", "e", "C", "h", "a", "n", "g", "e", "\"",
             ":", " ", "n", "u", "l", "l", "}", "]", "}">>, 0)>> }

\* the JSON body of the request: file_path and file_diff, each present or
\* not (<<>>)
RequestChoices ==
    {[file_path |-> p, file_diff |-> d] :
        p \in {<<>>, <<RequestPath>>},
        d \in {<<>>} \cup {<<t>> : t \in HistoryDescriptions \cup JsonPayloads}}

\* what openai_client.chat.completions.create comes to: a reply with this
\* content, OpenAIError, or another exception (no choice, no content)
ReplyContents ==
    { <<Ln(<<"{", "\"", "s", "u", "m", "m", "a", "r", "y", "\"", ":", " ", "\"",
             "s", "\"", ",", " ", "\"", "e", "v", "o", "l", "u", "t", "i", "o",
             "n", "P", "a", "t", "t", "e", "r", "n", "\"", ":", " ", "\"", "p",
             "\"", ",", " ", "\"", "k", "e", "y", "C", "h", "a", "n", "g", "e",
             "s", "\"", ":", " ", "[", "]", ",", " ", "\"", "r", "e", "c", "o",
             "m", "m", "e", "n", "d", "a", "t", "i", "o", "n", "s", "\"", ":", " ",
             "[", "]", "}">>, 0)>>,
      <<Ln(<<"{", "\"", "s", "u", "m", "m", "a", "r", "y", "\"", ":", " ", "\"",
             "s", "\"", "}">>, 0)>>,
      <<Ln(<<"T", "h", "e", " ", "f", "i", "l", "e", " ", "g", "r", "e", "w", ".">>, 0)>>,
      <<Ln(<<"[", "\"", "s", "u", "m", "m", "a", "r", "y", "\"", ",", " ", "\"",
             "e", "v", "o", "l", "u", "t", "i", "o", "n", "P", "a", "t", "t", "e",
             "r", "n", "\"", ",", " ", "\"", "k", "e", "y", "C", "h", "a", "n",
             "g", "e", "s", "\"", ",", " ", "\"", "r", "e", "c", "o", "m", "m",
             "e", "n", "d", "a", "t", "i", "o", "n", "s", "\"", "]">>, 0)>>,
      <<Ln(<<"5">>, 0)>> }

AiReplies ==
    {[raises |-> "none", content |-> c] : c \in ReplyContents}
    \cup {[raises |-> e, content |-> EmptyText] : e \in {"OpenAIError", "Exception"}}

\* jsonify({"analysis": {"summary": ...}}), status 200
AnalysisResponse(summary) == [status |-> 200, body |-> "analysis", summary |-> summary]

\* jsonify({"error": ...}), status
ErrorResponse(status_code) == [status |-> status_code, body |-> "error", summary |-> "none"]

InitServer ==
    /\ openai_client \in BOOLEAN
    /\ http_request \in RequestChoices
    /\ srv_pc = "client"
    /\ payload = NoPayload
    /\ http_response = NoHttpResponse
    /\ NoManager
    /\ ThreadsIdle
    /\ NoOptimizer
    /\ NoCall

\* lines 420-425: without a client the handler answers at once
ClientCheck ==
    /\ srv_pc = "client"
    /\ IF openai_client
       THEN srv_pc' = "get_json" /\ UNCHANGED http_response
       ELSE srv_pc' = "done" /\ http_response' = AnalysisResponse("unavailable")
    /\ UNCHANGED <<openai_client, http_request, payload>>
    /\ UNCHANGED <<opt_vars, mgr_vars, thread_vars, fn_vars>>

\* lines 428-430: an empty body is refused
GetJson ==
    /\ srv_pc = "get_json"
    /\ IF http_request.file_path = <<>> /\ http_request.file_diff = <<>>
       THEN srv_pc' = "done" /\ http_response' = ErrorResponse(400)
       ELSE srv_pc' = "loads" /\ UNCHANGED http_response
    /\ UNCHANGED <<openai_client, http_request, payload>>
    /\ UNCHANGED <<opt_vars, mgr_vars, thread_vars, fn_vars>>

\* lines 433-435: json.loads of file_diff ('{}' when missing) and
\* payload.get, which needs a dict; an exception of either goes to lines
\* 531-533
LoadPayload ==
    /\ srv_pc = "loads"
    /\ LET payload_str == IF http_request.file_diff = <<>> THEN <<Ln(<<"{", "}">>, 0)>>
                          ELSE http_request.file_diff[1]
           loaded == JsonLoads(payload_str)
       IN  IF loaded.ok /\ loaded.value.type = "object"
           THEN /\ payload' = loaded.value
                /\ srv_pc' = "commits"
                /\ UNCHANGED http_response
           ELSE /\ srv_pc' = "done"
                /\ http_response' = ErrorResponse(500)
                /\ UNCHANGED payload
    /\ UNCHANGED <<openai_client, http_request>>
    /\ UNCHANGED <<opt_vars, mgr_vars, thread_vars, fn_vars>>

\* lines 437-438: no commits, no analysis
CheckCommits ==
    /\ srv_pc = "commits"
    /\ IF JsonTruthy(JsonGetOr(payload, KeyCommits, JsonNull))
       THEN srv_pc' = "prompt" /\ UNCHANGED http_response
       ELSE srv_pc' = "done" /\ http_response' = ErrorResponse(400)
    /\ UNCHANGED <<openai_client, http_request, payload>>
    /\ UNCHANGED <<opt_vars, mgr_vars, thread_vars, fn_vars>>

\* line 443: build_file_history_analysis_prompt; what it raises goes to
\* lines 531-533
BuildPrompt ==
    /\ srv_pc = "prompt"
    /\ IF BuildPromptRaises(payload)
       THEN srv_pc' = "done" /\ http_response' = ErrorResponse(500)
       ELSE srv_pc' = "call" /\ UNCHANGED http_response
    /\ UNCHANGED <<openai_client, http_request, payload>>
    /\ UNCHANGED <<opt_vars, mgr_vars, thread_vars, fn_vars>>

\* lines 477-529: the call of the OpenAI client and the validation of its
\* reply; every end of it is an analysis with status 200
CallOpenAI ==
    /\ srv_pc = "call"
    /\ \E reply \in AiReplies :
        http_response' =
            AnalysisResponse(
                IF reply.raises = "OpenAIError" THEN "fallback_unavailable"
                ELSE IF reply.raises = "Exception" THEN "fallback_unknown"
                ELSE IF ValidateReply(reply.content) = "kept" THEN "ai_summary"
                ELSE "fallback_unknown")
    /\ srv_pc' = "done"
    /\ UNCHANGED <<openai_client, http_request, payload>>
    /\ UNCHANGED <<opt_vars, mgr_vars, thread_vars, fn_vars>>

NextServer ==
    \/ ClientCheck
    \/ GetJson
    \/ LoadPayload
    \/ CheckCommits
    \/ BuildPrompt
    \/ CallOpenAI

SpecServer == InitServer /\ [][NextServer]_vars

(***************************************************************************)
(* Properties of the providers and of ModelManager, checked under Spec     *)
(***************************************************************************)
\* C1: every message list that a provider transmits to its backend, in a
\* request made directly or through ModelManager.chat_completion, or as the
\* test request of is_available, has a validate_prompt_size estimate that is
\* at most available_tokens of the TokenManager of the transmitting provider,
\* whatever switch_provider does to current_provider meanwhile.
TransmittedWithinBudget ==
    /\ \A t \in Threads :
        pc[t] = "await" =>
            /\ request[t].send
            /\ target[t] \in providers
            /\ ValidatePromptSize(ProviderModel(target[t]),
                                  request[t].messages).estimated_tokens
                   <= ProviderAvailableTokens(target[t])
    /\ \A i \in 1..Len(probes) :
        ValidatePromptSize(ProviderModel(probes[i]), HelloMessages).estimated_tokens
            <= ProviderAvailableTokens(probes[i])

\* an optimized request is on its way to a provider that is no longer the
\* current one
OptimizedSentDuringSwitch ==
    \E t \in Threads :
        /\ pc[t] = "await"
        /\ request[t].optimizations = 1
        /\ request[t].messages # chat_messages[t]
        /\ current_provider # target[t]

\* C5: _select_provider makes the preferred identifier current if it is in
\* the registry, and otherwise the first identifier of openai, deepseek-v3,
\* deepseek-r1 that is in the registry; with none of them registered
\* current_provider stays unset and is_available() is false.
SelectionFollowsPriority ==
    [][(manager_pc = "new" /\ manager_pc' = "ready") =>
        LET order == <<"openai", "deepseek-v3", "deepseek-r1">>
            present == {k \in 1..3 : order[k] \in providers'}
        IN  /\ preferred_provider' = preferred_provider
            /\ IF preferred_provider \in providers'
               THEN current_provider' = preferred_provider
               ELSE IF present # {}
               THEN current_provider' = order[CHOOSE k \in present :
                                                \A j \in present : k <= j]
               ELSE current_provider' = "None" /\ ~ManagerIsAvailable']_vars

\* registry {openai, deepseek-v3}, preferred deepseek-r1 absent: openai
FallbackToFirstRegistered ==
    /\ manager_pc = "ready"
    /\ preferred_provider = "deepseek-r1"
    /\ providers = {"openai", "deepseek-v3"}
    /\ current_provider = "openai"
    /\ \A t \in Threads : pc[t] = "idle" /\ result[t] = NoResult

\* C6: at every moment at most one provider is current, and current_provider
\* is unset or one of the providers of the registry.
CurrentIsRegistered ==
    /\ Cardinality({id \in providers \cup {current_provider} :
                        current_provider # "None" /\ id = current_provider}) <= 1
    /\ current_provider # "None" => current_provider \in providers

\* one switch was rejected and another switch has replaced the provider that
\* an earlier successful switch returned
SwitchedTwiceAndRejected ==
    \E t, u \in Threads :
        /\ result[t].kind = "switched"
        /\ result[t].value # current_provider
        /\ result[u] = [kind |-> "error", value |-> "unknown_provider"]

\* C7: switch_provider with a name that is not in the registry raises the
\* unknown-provider error and changes neither current_provider nor the
\* registry; with a registered name it makes that provider the current one.
SwitchContract ==
    [][\A t \in Threads :
        (pc[t] = "sw_check" /\ pc'[t] # "sw_check") =>
            IF switch_name[t] \notin providers
            THEN /\ result'[t] = [kind |-> "error", value |-> "unknown_provider"]
                 /\ pc'[t] = "done"
                 /\ current_provider' = current_provider
                 /\ providers' = providers
            ELSE /\ current_provider' = switch_name[t]
                 /\ providers' = providers
                 /\ result'[t].kind # "error"]_vars

\* a rejected switch next to a provider that a successful switch made current
RejectedNextToSwitched ==
    \E t, u \in Threads :
        /\ result[t] = [kind |-> "error", value |-> "unknown_provider"]
        /\ switch_name[t] \notin providers
        /\ current_provider # "None"
        /\ pc[u] = "sw_return"
        /\ current_provider = switch_name[u]

\* C8: no reader sees a torn state while switch_provider runs: a dispatch
\* goes to one registered provider, and the dict get_provider_status returns
\* names a current provider exactly when exactly that entry is flagged
\* is_current.
NoTornRead ==
    \A t \in Threads :
        /\ pc[t] \in {"prepare", "await", "handle"} => target[t] \in providers
        /\ (result[t].kind = "status" /\ status[t].current # "None") =>
               status[t].flagged = {status[t].current}

FailurePropagates ==
    [][\A t \in Threads :
        (pc[t] \in {"prepare", "handle"} /\ pc'[t] # pc[t]
            /\ ~(pc[t] = "prepare" /\ pc'[t] = "await")
            /\ ~(pc'[t] = "done" /\ result'[t].kind = "text")) =>
            /\ pc'[t] = "done"
            /\ result'[t].kind = "error"
            /\ result'[t].value \in {"api_error", "network_error", "parse_error",
                                    "invalid_response", "backend_token_limit",
                                    "attribute_error", "token_limit_exceeded",
                                    "token_limit_exceeded_after_optimization"}
            /\ target'[t] = target[t]
            /\ current_provider' = current_provider
            /\ providers' = providers]_vars

\* the backend of the current provider has failed a request while another
\* provider was registered
BackendFailedWithAlternative ==
    \E t \in Threads :
        /\ pc[t] = "done"
        /\ result[t].kind = "error"
        /\ result[t].value \in {"api_error", "network_error"}
        /\ target[t] = current_provider
        /\ providers \ {target[t]} # {}

\* C11: ModelManager.chat_completion raises the no-provider error, with no
\* request to any backend, exactly when current_provider is unset; with a
\* current provider it goes on to that provider and raises nothing itself.
NoProviderError ==
    [][\A t \in Threads :
        (pc[t] = "mm_check" /\ pc'[t] # "mm_check") =>
            IF current_provider = "None"
            THEN /\ result'[t] = [kind |-> "error", value |-> "no_provider"]
                 /\ pc'[t] = "done"
                 /\ target'[t] = "None"
                 /\ request'[t] = NoRequest
                 /\ attempts'[t] = 0
            ELSE /\ result'[t] = NoResult
                 /\ pc'[t] = "mm_load"]_vars

\* a call on a manager with an empty registry has ended with the error and
\* nothing went out
FailedWithoutProvider ==
    \E t \in Threads :
        /\ pc[t] = "done"
        /\ result[t] = [kind |-> "error", value |-> "no_provider"]
        /\ current_provider = "None"
        /\ chat_messages[t] # <<>>
        /\ attempts[t] = 0

\* C12: a 400 response of the DeepSeek backend that reports the maximum
\* context length ends the call with the token-limit error of the backend,
\* which is not the network error, and no request is sent again in answer to
\* a 4xx response.
ContextLengthErrorSurfaces ==
    [][\A t \in Threads :
        /\ (pc[t] = "await" /\ attempts'[t] > attempts[t]) =>
               ~(response'[t].status \in 400..499)
        /\ (pc[t] = "handle" /\ pc'[t] # "handle" /\ IsDeepseek(target[t])
                /\ response[t] = [status |-> 400, body |-> "maximum_context_length"]) =>
               /\ pc'[t] = "done"
               /\ result'[t].kind = "error"
               /\ result'[t].value = "backend_token_limit"
               /\ result'[t].value \notin {"network_error", "parse_error"}
               /\ attempts'[t] = 0]_vars

\* a call to a Deepseek provider has ended with the token-limit error of the
\* backend
ContextLengthErrorRaised ==
    \E t \in Threads :
        /\ pc[t] = "done"
        /\ IsDeepseek(target[t])
        /\ result[t] = [kind |-> "error", value |-> "backend_token_limit"]
        /\ response[t] = NoResponse

\* C27: when the preferred provider is not in the registry and
\* _select_provider falls back through the priority order, a Deepseek
\* provider becomes current without a liveness probe: no request is sent to
\* it during the selection.
FallbackWithoutProbe ==
    [][(/\ manager_pc = "new"
        /\ manager_pc' = "ready"
        /\ preferred_provider \notin providers'
        /\ IsDeepseek(current_provider')) =>
            \A i \in 1..Len(probes') : probes'[i] # current_provider']_vars

\* the 200 bodies with a first choice in which no answer field is populated
UnpopulatedChoices == {"unknown_choice", "empty_text", "null_text"}

\* C28: when a Deepseek response has status 200 and a non-empty choices list
\* but no recognized answer field is populated in the first choice,
\* chat_completion returns the diagnostic placeholder and does not fail.
PlaceholderForUnpopulatedChoice ==
    [][\A t \in Threads :
        (/\ pc[t] = "handle"
         /\ pc'[t] = "done"
         /\ IsDeepseek(target[t])
         /\ response[t].status = 200
         /\ response[t].body \in UnpopulatedChoices) =>
            result'[t] = [kind |-> "text", value |-> "placeholder"]]_vars

\* C29: once ModelManager has a current provider it never returns to the
\* unset state: whatever switch_provider calls follow, accepted or rejected,
\* is_available() stays true, no chat_completion ends with the no-provider
\* error and none reads an unset provider.
CurrentProviderStays ==
    [][current_provider # "None" =>
        /\ current_provider' # "None"
        /\ ManagerIsAvailable'
        /\ \A t \in Threads :
            /\ result'[t] # [kind |-> "error", value |-> "no_provider"]
            /\ (pc[t] = "mm_load" /\ pc'[t] = "prepare") => target'[t] # "None"]_vars

\* a chat call has passed the check of the current provider and got its
\* text, one switch was rejected, and the current provider is not the one
\* the construction selected
AnsweredAfterSwitches ==
    \E t, u \in Threads :
        /\ result[t] = [kind |-> "error", value |-> "unknown_provider"]
        /\ result[u].kind = "text"
        /\ ManagerIsAvailable
        /\ current_provider # SelectProvider(preferred_provider, providers,
                                             [id \in ProviderIds |-> TRUE]).current

(***************************************************************************)
(* Properties of optimize_file_analysis_data, checked under SpecOpt        *)
(***************************************************************************)
\* C2: the files optimize_file_analysis_data returns have estimates that sum
\* to at most available_tokens - 300.
ResultWithinBudget ==
    opt_pc = "returned" =>
        SumFileTokens(optimized_files) <= AvailableTokens(model_name) - 300

\* C3: a list whose estimates sum to at most available_tokens - 300 is
\* returned as it is: the same files in the same order with the same
\* filePath and diffContent.
FittingListUnchanged ==
    (opt_pc = "returned"
        /\ SumFileTokens(file_analysis_data) <= AvailableTokens(model_name) - 300) =>
        optimized_files = file_analysis_data

\* C4: the returned files are, by filePath, a prefix of the input in input
\* order: the i-th returned file comes from the i-th input file, so nothing
\* is reordered and nothing follows an omitted file.
ResultIsPrefix ==
    /\ Len(optimized_files) <= Len(file_analysis_data)
    /\ Len(kept_index) = Len(optimized_files)
    /\ \A i \in 1..Len(optimized_files) :
        /\ kept_index[i] = i
        /\ optimized_files[i].filePath = file_analysis_data[i].filePath

\* the call has returned a file and an omitted file was followed by more input
OmittedBeforeEndOfInput ==
    /\ opt_pc = "returned"
    /\ Len(optimized_files) >= 1
    /\ Len(optimized_files) + 2 <= Len(file_analysis_data)

\* the openings of the lines the compression itself writes: the truncation
\* markers and the remainder counts ('...['), the counts of added lines
\* ('[' U+65B0 U+589E ' ') and of removed lines ('[' U+5220 U+9664 ' ')
WrittenOpenings ==
    { <<".", ".", ".", "[">>, <<"[", "u65B0", "u589E", " ">>, <<"[", "u5220", "u9664", " ">> }

\* the line is one the compression writes, or what a cut leaves of one
WrittenByCompression(l) ==
    \E m \in WrittenOpenings :
        \/ StartsWith(l, m)
        \/ l.n = 0 /\ Len(l.h) <= Len(m) /\ SubSeq(m, 1, Len(l.h)) = l.h

\* the line is a line of the text, or what a cut leaves of one
TakenFrom(l, t) == \E k \in 1..Len(t) : LinePrefix(t[k], LineLen(l)) = l

\* the result tells that omitted files were left out: it has an element
\* besides the files it kept, or the text of a kept file has a line with
\* that number which is neither taken from the input file nor written by the
\* compression
OmissionMarked(omitted) ==
    \/ Len(optimized_files) > Len(kept_index)
    \/ \E i \in 1..Len(optimized_files) :
        LET input == file_analysis_data[kept_index[i]]
            kept == optimized_files[i]
        IN  \/ kept.filePath # input.filePath
            \/ \E k \in 1..Len(kept.diffContent) :
                LET l == kept.diffContent[k]
                IN  /\ Contains(l.h, Str(omitted))
                    /\ ~TakenFrom(l, input.diffContent)
                    /\ ~WrittenByCompression(l)

\* C23: whenever optimize_file_analysis_data omits one or more input files
\* from its result, the result carries a marker stating how many files were
\* omitted.
OmittedFilesCounted ==
    (opt_pc = "returned" /\ Len(optimized_files) < Len(file_analysis_data)) =>
        OmissionMarked(Len(file_analysis_data) - Len(optimized_files))

\* the file at file_index does not fit after _optimize_single_file
DoesNotFitAfterStructural ==
    \E dn \in {0, 1} :
        LET optimized_file == OptimizeSingleFile(file_analysis_data[file_index],
                                                 AvailableForFiles(model_name) - used_tokens,
                                                 dn)
        IN  /\ optimized_file # <<>>
            /\ used_tokens + EstimateFileTokens(optimized_file[1])
                   > AvailableForFiles(model_name)

\* C25: aggressive compression is attempted at most once per call, only for
\* the first file that does not fit after the structural step
\* (_optimize_single_file) and only with more than 50 tokens remaining; it
\* is the final step: the call returns with it, the aggressively compressed
\* file, if any, is the last element of the result, and nothing changes
\* afterwards.
AggressiveOnceAndLast ==
    [][/\ aggressive_calls' # aggressive_calls =>
            /\ aggressive_calls = <<>>
            /\ aggressive_calls' = <<file_index>>
            /\ kept_index = [i \in 1..(file_index - 1) |-> i]
            /\ DoesNotFitAfterStructural
            /\ AvailableForFiles(model_name) - used_tokens > 50
            /\ opt_pc' = "returned"
            /\ \/ optimized_files' = optimized_files /\ kept_index' = kept_index
               \/ /\ Len(optimized_files') = Len(optimized_files) + 1
                  /\ SubSeq(optimized_files', 1, Len(optimized_files)) = optimized_files
                  /\ kept_index' = Append(kept_index, file_index)
                  /\ optimized_files'[Len(optimized_files')].filePath
                         = file_analysis_data[file_index].filePath
       /\ aggressive_calls # <<>> =>
            UNCHANGED <<optimized_files, kept_index, file_index, used_tokens, opt_pc>>]_vars

\* the call returned after the second attempt at a file that was not the
\* last of the input, and that file ends the result
AggressiveEndedTheCall ==
    /\ opt_pc = "returned"
    /\ aggressive_calls # <<>>
    /\ aggressive_calls[1] < Len(file_analysis_data)
    /\ aggressive_calls[1] > 1
    /\ kept_index # <<>>
    /\ kept_index[Len(kept_index)] = aggressive_calls[1]

(***************************************************************************)
(* Properties of single calls of TokenManager, checked under SpecFn        *)
(***************************************************************************)
\* C13: for every non-empty text t and every budget b below
\* estimate_tokens(t), structural compression returns a string whose
\* estimate is at most b plus a small fixed tolerance that accounts for the
\* truncation marker alone (here 4 tokens: the marker has 11 characters and
\* the division by 3 of a code-like text adds one more).
StructuralWithinBudget ==
    (/\ call.fn = "_compress_diff_content"
     /\ returned.regular # <<>>
     /\ TextLen(call.text[1]) > 0
     /\ call.target < EstimateTokens(call.text[1])) =>
        /\ ~returned.regular[1].raised
        /\ EstimateTokens(returned.regular[1].value) <= call.target + 4

\* the cut happened and the marker takes the estimate to the budget plus the
\* whole tolerance
CutWithFullTolerance ==
    /\ call.fn = "_compress_diff_content"
    /\ returned.regular # <<>>
    /\ call.target < EstimateTokens(call.text[1])
    /\ call.target > 0
    /\ LET out == returned.regular[1].value
       IN  /\ Len(out) > 1
           /\ out[Len(out)] = TruncatedMarker[Len(TruncatedMarker)]
           /\ EstimateTokens(out) = call.target + 4

\* C14: for every text t and every budget b that is at least
\* estimate_tokens(t), _compress_diff_content returns t itself, in
\* structural and in aggressive mode.
WithinBudgetUnchanged ==
    (/\ call.fn = "_compress_diff_content"
     /\ call.target >= EstimateTokens(call.text[1])) =>
        \A o \in {returned.regular, returned.aggressive} :
            o # <<>> => (~o[1].raised /\ o[1].value = call.text[1])

\* both modes have returned for a text of several lines, context before a
\* change, that is exactly within the budget
BothModesAtExactBudget ==
    /\ call.fn = "_compress_diff_content"
    /\ returned.regular # <<>>
    /\ returned.aggressive # <<>>
    /\ call.target = EstimateTokens(call.text[1])
    /\ call.target > 0
    /\ Len(call.text[1]) > 1
    /\ IsContextLine(call.text[1][1])
    /\ IsAddedLine(call.text[1][2])

\* C15: structural compression is idempotent on its own output: compressing
\* the string it returned again, to the same budget, returns that string.
StructuralIdempotent ==
    (/\ call.fn = "_compress_diff_content"
     /\ returned.again # <<>>) =>
        returned.again[1] = returned.regular[1]

\* C16: for the same text and budget, the estimate of what aggressive
\* compression returns is at most the estimate of what structural
\* compression returns.
AggressiveNotLarger ==
    (/\ call.fn = "_compress_diff_content"
     /\ returned.regular # <<>>
     /\ returned.aggressive # <<>>
     /\ ~returned.regular[1].raised
     /\ ~returned.aggressive[1].raised) =>
        EstimateTokens(returned.aggressive[1].value)
            <= EstimateTokens(returned.regular[1].value)

\* C17: for every text and every budget, in both modes,
\* _compress_diff_content does not raise, and it returns a non-empty string
\* unless the text was empty.
CompressAlwaysReturnsText ==
    call.fn = "_compress_diff_content" =>
        \A o \in {returned.regular, returned.aggressive} :
            o # <<>> =>
                /\ ~o[1].raised
                /\ TextLen(call.text[1]) > 0 => TextLen(o[1].value) > 0

\* C18: estimate_tokens(t) is 0 for an empty or absent t; otherwise it is
\* floor(len(t) / 3) when at least two distinct indicators of the fixed set
\* occur in t and floor(len(t) / 4) when fewer than two occur; it is never
\* negative.
EstimateByDensity ==
    (/\ call.fn = "estimate_tokens"
     /\ returned.estimate # <<>>) =>
        LET chars == IF call.text = <<>> THEN 0 ELSE TextLen(call.text[1])
            found == IF call.text = <<>> THEN {}
                     ELSE {k \in 1..Len(code_indicators) :
                               TextContains(call.text[1], code_indicators[k])}
        IN  /\ returned.estimate[1] >= 0
            /\ returned.estimate[1] = IF chars = 0 THEN 0
                                      ELSE IF Cardinality(found) >= 2 THEN chars \div 3
                                      ELSE chars \div 4

\* a text with exactly two indicators, of a length that 3 does not divide,
\* has been estimated
TwoIndicatorsEstimated ==
    /\ call.fn = "estimate_tokens"
    /\ returned.estimate # <<>>
    /\ call.text # <<>>
    /\ TextLen(call.text[1]) % 3 # 0
    /\ Cardinality({k \in 1..Len(code_indicators) :
                        TextContains(call.text[1], code_indicators[k])}) = 2
    /\ returned.estimate[1] > TextLen(call.text[1]) \div 4

\* C19: validate_prompt_size(messages) returns as estimated_tokens the sum of
\* estimate_tokens(content) over all messages, and is_valid is true exactly
\* when estimated_tokens is at most available_tokens; 50000 estimated tokens
\* against 31968 available give is_valid false and estimated_tokens 50000.
ValidationIsSumAgainstBudget ==
    (/\ call.fn = "validate_prompt_size"
     /\ returned.validation # <<>>) =>
        LET sum[i \in 0..Len(call.messages)] ==
                IF i = 0 THEN 0
                ELSE sum[i - 1] + EstimateTokens(call.messages[i].content)
            validation == returned.validation[1]
        IN  /\ validation.estimated_tokens = sum[Len(call.messages)]
            /\ validation.is_valid <=>
                   validation.estimated_tokens <= TokenManagerInit(call.model).available_tokens
            /\ (validation.estimated_tokens = 50000
                    /\ TokenManagerInit(call.model).available_tokens = 31968) =>
                   ~validation.is_valid

\* the example: 50000 estimated tokens were rejected against 31968
FiftyThousandRejected ==
    /\ call.fn = "validate_prompt_size"
    /\ returned.validation = <<[is_valid |-> FALSE, estimated_tokens |-> 50000]>>
    /\ TokenManagerInit(call.model).available_tokens = 31968

\* C20: for every model name, a key of MODEL_LIMITS or not, a TokenManager
\* has available_tokens = max_tokens - reserved response tokens, where the
\* reservation is 2000 when max_tokens > 100000 and 800 otherwise, and
\* available_tokens > 0.
AvailableIsLimitLessReserve ==
    (/\ call.fn = "__init__"
     /\ returned.token_manager # <<>>) =>
        LET manager == returned.token_manager[1]
        IN  /\ manager.RESPONSE_TOKENS = IF manager.max_tokens > 100000 THEN 2000 ELSE 800
            /\ manager.available_tokens = manager.max_tokens - manager.RESPONSE_TOKENS
            /\ manager.available_tokens > 0

\* a TokenManager exists for a name that is not a key of MODEL_LIMITS
UnknownModelConstructed ==
    /\ call.fn = "__init__"
    /\ call.model \notin KnownModels
    /\ returned.token_manager # <<>>
    /\ returned.token_manager[1].max_tokens = 32768
    /\ returned.token_manager[1].available_tokens = 31968

\* the loop of lines 235-240 ends at a context line that does not fit
ContextLeftOut(diff_content, target_tokens, dn) ==
    LET lines == Split(diff_content)
        important_lines == SelectSeq(lines, IsImportantLine)
        context_lines == SelectSeq(lines, IsContextLine)
        target_chars == TargetChars(JoinLen(lines), target_tokens,
                                    EstimateTokens(diff_content), dn)
    IN  Len(AddContext(context_lines, JoinLen(important_lines), target_chars))
            < Len(context_lines)

\* the text ends with the truncation marker of line 246 and has it once
EndsWithOneMarker(t) ==
    /\ Len(t) >= 2
    /\ t[Len(t)] = TruncatedMarker[2]
    /\ Cardinality({k \in 1..Len(t) : Contains(t[k].h, TruncatedMarker[2].h)}) = 1

\* C24: in structural mode, whenever _regular_compress_diff leaves out at
\* least one context line because adding it would exceed the character
\* budget, the output ends with exactly one truncation marker.
LeftOutContextMarked ==
    (/\ call.fn = "_compress_diff_content"
     /\ returned.regular # <<>>
     /\ ~returned.regular[1].raised
     /\ TextLen(call.text[1]) > 0
     /\ call.target < EstimateTokens(call.text[1])) =>
        \A dn \in {0, 1} :
            (/\ returned.regular[1].value
                    = RegularCompressDiff(call.text[1], call.target,
                                          EstimateTokens(call.text[1]), dn)
             /\ ContextLeftOut(call.text[1], call.target, dn)) =>
                EndsWithOneMarker(returned.regular[1].value)

\* the lines of t that start with the sign and are no file header (the
\* sign three times)
ChangedLines(t, sign) ==
    LET IsChanged(l) == StartsWith(l, <<sign>>) /\ ~StartsWith(l, <<sign, sign, sign>>)
    IN  SelectSeq(t, IsChanged)

\* the lines of t that start with '@@'
HunkHeaders(t) ==
    LET IsHeader(l) == StartsWith(l, <<"@", "@">>)
    IN  SelectSeq(t, IsHeader)

\* s is made of the first lines of t, at most k of them
IsFirstLinesOf(s, t, k) == Len(s) <= k /\ Len(s) <= Len(t) /\ s = SubSeq(t, 1, Len(s))

\* C26: what _aggressive_compress_diff builds before its final cut has no
\* context line (every line is a hunk header, an added or removed line of the
\* input, or a count), at most one '@@' header, the first of the input, at
\* most the first 3 added and the first 3 removed lines of the input, and
\* the count of the remainder whenever there are more than 3; the file
\* headers '+++' and '---' are not among the added and removed lines and
\* are not counted. A result that needed no cut is that text.
AggressiveSummaryShape ==
    (call.fn = "_compress_diff_content" /\ returned.aggressive # <<>>) =>
        LET t == call.text[1]
            parts == AggressiveSummaryParts(t)
            added == ChangedLines(t, "+")
            removed == ChangedLines(t, "-")
            counts == {AddedCountLine(Len(added)), RemovedCountLine(Len(removed))}
                      \cup (IF Len(added) > 3 THEN {AddedMoreLine(Len(added) - 3)} ELSE {})
                      \cup (IF Len(removed) > 3 THEN {RemovedMoreLine(Len(removed) - 3)}
                            ELSE {})
            value == returned.aggressive[1].value
        IN  /\ \A k \in 1..Len(parts) :
                \/ parts[k] \in counts
                \/ \E j \in 1..Len(t) :
                    /\ parts[k] = t[j]
                    /\ \/ StartsWith(t[j], <<"@", "@">>)
                       \/ StartsWith(t[j], <<"+">>) /\ ~StartsWith(t[j], <<"+", "+", "+">>)
                       \/ StartsWith(t[j], <<"-">>) /\ ~StartsWith(t[j], <<"-", "-", "-">>)
            /\ IsFirstLinesOf(HunkHeaders(parts), HunkHeaders(t), 1)
            /\ IsFirstLinesOf(ChangedLines(parts, "+"), added, 3)
            /\ IsFirstLinesOf(ChangedLines(parts, "-"), removed, 3)
            /\ Len(added) > 3 =>
                   \E k \in 1..Len(parts) : parts[k] = AddedMoreLine(Len(added) - 3)
            /\ Len(removed) > 3 =>
                   \E k \in 1..Len(parts) : parts[k] = RemovedMoreLine(Len(removed) - 3)
            /\ (/\ ~returned.aggressive[1].raised
                /\ call.target < EstimateTokens(t)
                /\ TextLen(value) <= call.target * 4) => value = Join(parts)

\* an aggressive result that needed no cut, for a diff with a file header
\* and for one with more than 3 added lines
SummaryOfManyAddedLines ==
    /\ call.fn = "_compress_diff_content"
    /\ returned.aggressive # <<>>
    /\ ~returned.aggressive[1].raised
    /\ call.target < EstimateTokens(call.text[1])
    /\ TextLen(returned.aggressive[1].value) <= call.target * 4
    /\ Len(ChangedLines(call.text[1], "+")) > 3
    /\ HunkHeaders(call.text[1]) # <<>>

\* the position of the next line after i that starts a file entry, or the
\* position after the last line
NextEntry(lines, i) ==
    LET later == {j \in (i + 1)..Len(lines) : StartsNewFile(lines[j])}
    IN  IF later = {} THEN Len(lines) + 1
        ELSE CHOOSE j \in later : \A m \in later : j <= m

\* C30: in what _optimize_comprehensive_analysis_content returns, for each
\* file entry it retained, the diff lines that follow the entry's
\* diff-content line (up to the next entry; blank lines and the two markers
\* of the optimization aside) are lines of that same file's section of the
\* input.
DiffLinesFromOwnSection ==
    (call.fn = "_optimize_user_content" /\ returned.user_content # <<>>) =>
        LET input == call.text[1]
            out == returned.user_content[1]
        IN  \A j \in 1..Len(out) : \A i \in 1..Len(input) :
                (StartsNewFile(out[j]) /\ input[i] = out[j]) =>
                    \A k \in (j + 1)..(NextEntry(out, j) - 1) :
                        (/\ \E m \in (j + 1)..(k - 1) : StartsWith(out[m], DiffContentPrefix)
                         /\ NonBlank(out[k])
                         /\ out[k] # DiffCompressedLine
                         /\ ~StartsWith(out[k], <<"[">>)) =>
                            \E n \in (i + 1)..(NextEntry(input, i) - 1) : input[n] = out[k]

(***************************************************************************)
(* Properties of both optimizers, checked under SpecOptimizers             *)
(***************************************************************************)
\* C21: optimization never mutates its input: while a provider prepares a
\* request (validation, _optimize_messages, second validation) the caller's
\* message list and each of its messages stay as they are, and while
\* optimize_file_analysis_data runs each file dict of the caller, its
\* diffContent included, stays as it is; compressed content is only in the
\* request and in the result.
OptimizationLeavesInput ==
    [][/\ \A t \in Threads :
            pc[t] = "prepare" => chat_messages'[t] = chat_messages[t]
       /\ opt_pc \in {"call", "loop"} => file_analysis_data' = file_analysis_data]_vars

\* the result holds a structurally and an aggressively compressed diff of
\* files whose dicts the caller still has in full
CompressedCopiesReturned ==
    /\ opt_pc = "returned"
    /\ aggressive_calls # <<>>
    /\ \E i \in 1..Len(optimized_files) :
        /\ kept_index[i] \notin {aggressive_calls[k] : k \in 1..Len(aggressive_calls)}
        /\ optimized_files[i].diffContent # file_analysis_data[kept_index[i]].diffContent
    /\ optimized_files[Len(optimized_files)].diffContent
           # file_analysis_data[kept_index[Len(kept_index)]].diffContent

(***************************************************************************)
(* Properties of the handler of /analyze_file_history, checked under       *)
(* SpecServer                                                              *)
(***************************************************************************)
\* C22: a request whose JSON body carries file_path and a non-empty
\* plain-text history description in file_diff is answered with status 200
\* and an analysis with a summary, whether or not the AI client is
\* configured.
HistoryDescriptionAnswered ==
    (/\ srv_pc = "done"
     /\ http_request.file_path # <<>>
     /\ http_request.file_diff # <<>>
     /\ http_request.file_diff[1] \in HistoryDescriptions)
        => /\ http_response.status = 200
           /\ http_response.body = "analysis"
           /\ http_response.summary # "none"

====
